---------------------------- MODULE Spec2Model ----------------------------
(***************************************************************************)
(* Model of the foss-sftp batch job (src/utils.py, src/main.py,            *)
(* src/dev/main.py): business calendar, return aggregation, rebalancing    *)
(* signals and the outbound run around them.                               *)
(*                                                                         *)
(* Dates are the program's "YYYYMMDD" strings, held as the 8-digit number  *)
(* they spell (string order on 8 digits is number order); a datetime is a  *)
(* record [y, m, d].  Text that the program matches by prefix is held as a *)
(* sequence of one-character strings.                                      *)
(***************************************************************************)
EXTENDS Integers, Sequences, FiniteSets, Bags, TLC

VARIABLES
    op,             \* which computation or operation this behaviour runs
    pc,             \* position inside it
    target_date,    \* --target_date, "YYYYMMDD"
    kr_holidays,    \* holidays.KR(): the set of listed public holidays
    sFndDate,       \* result of get_recent_business_date
    TBL_HOLIDAY,    \* calendar table: set of [trddate, holiday_yn]
    i_opent_day,    \* ordinal of the trading day that rebalances
    next_rebal_date,\* result of get_next_rebalancing_date
    TBL_RESULT_MPLIST,  \* set of [auth_id, port_cd, prd_gb, rebal_date]
    TBL_RESULT_RETURN,  \* set of [auth_id, port_cd, trddate, rtn_1d]
    TMP_PERFORMANCE,    \* rows of calculate_performance
    TMP_RETURN,         \* rows of get_tmp_return
    TBL_FOSS_BCPDATA,   \* staged rows [indate, send_filename, idx, lst]
    local_file,     \* <<>>: no file; <<lines>>: the local CSV file
    local_file_path,\* "unbound" until the function assigns it
    remote_file,    \* <<>>: nothing uploaded; <<lines>>: the uploaded file
    TBL_EVENT_LOG,              \* sequence of result values
    TBL_BATCH_PROCESSING_LOG,   \* sequence of returnresult values
    is_log_event_true,
    is_log_batch_processing_true,
    raised,         \* the operation function ended by raising
    TBL_FOSS_CUSTOMERACCOUNT, \* set of [trddate, customer_id, investgb,
                              \*         order_status]
    TBL_FOSS_REBAL_CUSTOMER,  \* audit rows of manual overrides, in order
    manual_customer_ids,      \* <<>>: not given; <<ids>>: the list given
    manual_rebal_yn,          \* <<>> or <<flag>>
    forced_rebal_date,        \* <<>> or <<date>>
    final_rebalcus_data,      \* the dataframe of process_rebalcus
    args_manual_customer_ids, \* <<>>, or <<text>>: the command-line value
    TBL_FOSS_UNIVERSE,        \* set of [trddate, fund_cd, fund_nm]
    TBL_FOSS_REPORT,          \* set of [trddate, performance_t,
                              \*         performance_c]
    file_contents,            \* the text an inbound function is given
    TBL_FOSS_CUSTOMERFUND,    \* bag of [trddate, row]
    run_count,                \* the runs of the ingest that have ended
    rows_of_first_success,    \* <<>>, or <<bag>>: what the first run that
                              \* ended without raising has inserted
    exception,                \* "none", or the exception the except clause
                              \* of an inbound function has caught
    main_pc,                  \* position inside main()
    sftp,                     \* "unbound", "open" or "closed"
    transport,                \* "unbound", "open" or "closed"
    connection,               \* "unbound", "open" or "closed"
    connection_qbt_api,       \* "unbound", "open" or "closed"
    exit_status               \* <<>> while the process runs, <<code>> after

calVars == <<kr_holidays, sFndDate>>
tblVars == <<TBL_HOLIDAY, i_opent_day, next_rebal_date>>
perfVars == <<TBL_RESULT_MPLIST, TBL_RESULT_RETURN, TMP_PERFORMANCE,
              TMP_RETURN>>
runVars == <<TBL_FOSS_BCPDATA, local_file, local_file_path, remote_file,
             TBL_EVENT_LOG, TBL_BATCH_PROCESSING_LOG, is_log_event_true,
             is_log_batch_processing_true, raised>>

rebalVars == <<TBL_FOSS_CUSTOMERACCOUNT, TBL_FOSS_REBAL_CUSTOMER,
               manual_customer_ids, manual_rebal_yn, forced_rebal_date,
               final_rebalcus_data, args_manual_customer_ids>>

srcVars == <<TBL_FOSS_UNIVERSE, TBL_FOSS_REPORT>>

inVars == <<file_contents, TBL_FOSS_CUSTOMERFUND, run_count,
            rows_of_first_success, exception>>

mainVarsButPc == <<sftp, transport, connection, connection_qbt_api,
                   exit_status>>

mainVars == <<main_pc, mainVarsButPc>>

vars == <<op, pc, target_date, calVars, tblVars, perfVars, runVars,
          rebalVars, srcVars, inVars, mainVars>>

\* a date that is absent: Python None, SQL NULL (no calendar date is 0)
NoDate == 0

-----------------------------------------------------------------------------
(* datetime arithmetic (Python datetime, proleptic Gregorian calendar) *)

IsLeap(y) == (y % 4 = 0) /\ ((y % 100 # 0) \/ (y % 400 = 0))

DaysInMonth(y, m) ==
    IF m = 2 THEN (IF IsLeap(y) THEN 29 ELSE 28)
    ELSE IF m \in {4, 6, 9, 11} THEN 30 ELSE 31

RECURSIVE DaysBeforeMonth(_, _)
DaysBeforeMonth(y, m) ==
    IF m = 1 THEN 0 ELSE DaysBeforeMonth(y, m - 1) + DaysInMonth(y, m - 1)

DaysBeforeYear(y) ==
    (y - 1) * 365 + ((y - 1) \div 4) - ((y - 1) \div 100) + ((y - 1) \div 400)

\* datetime.toordinal(): 0001-01-01 is day 1
ToOrdinal(dt) == DaysBeforeYear(dt.y) + DaysBeforeMonth(dt.y, dt.m) + dt.d

\* datetime.weekday(): Monday = 0 ... Sunday = 6
Weekday(dt) == (ToOrdinal(dt) + 6) % 7

\* datetime.strptime(s, "%Y%m%d")
Strptime(s) == [y |-> s \div 10000, m |-> (s \div 100) % 100, d |-> s % 100]

\* datetime.strftime("%Y%m%d")
Strftime(dt) == dt.y * 10000 + dt.m * 100 + dt.d

\* dt - timedelta(days=1)
MinusOneDay(dt) ==
    IF dt.d > 1 THEN [dt EXCEPT !.d = dt.d - 1]
    ELSE IF dt.m > 1
         THEN [y |-> dt.y, m |-> dt.m - 1, d |-> DaysInMonth(dt.y, dt.m - 1)]
         ELSE [y |-> dt.y - 1, m |-> 12, d |-> 31]

\* dt + timedelta(days=1)
PlusOneDay(dt) ==
    IF dt.d < DaysInMonth(dt.y, dt.m) THEN [dt EXCEPT !.d = dt.d + 1]
    ELSE IF dt.m < 12
         THEN [y |-> dt.y, m |-> dt.m + 1, d |-> 1]
         ELSE [y |-> dt.y + 1, m |-> 1, d |-> 1]

IsDate(s) ==
    LET dt == Strptime(s)
    IN  /\ dt.y >= 1
        /\ dt.m \in 1..12
        /\ dt.d \in 1..DaysInMonth(dt.y, dt.m)

\* the calendar dates a, a+1 day, ..., b as "YYYYMMDD" values
DateRange(a, b) == {s \in a..b : IsDate(s)}

RECURSIVE AddDays(_, _)
AddDays(dt, n) == IF n = 0 THEN dt ELSE AddDays(PlusOneDay(dt), n - 1)

-----------------------------------------------------------------------------
(* get_recent_business_date *)

\* "weekday() < 5 and date not in kr_holidays"
IsBusinessDay(dt, hol) == Weekday(dt) < 5 /\ Strftime(dt) \notin hol

\* faulty variant: the backward walk skips weekends only
RECURSIVE WalkBackToBusinessDayWeekendsOnly(_, _)
WalkBackToBusinessDayWeekendsOnly(dt, hol) ==
    IF Weekday(dt) >= 5
    THEN WalkBackToBusinessDayWeekendsOnly(MinusOneDay(dt), hol)
    ELSE dt

\* the while loop of the business-day branch
RECURSIVE WalkBackToBusinessDay(_, _)
WalkBackToBusinessDay(dt, hol) ==
    IF Weekday(dt) >= 5 \/ Strftime(dt) \in hol
    THEN WalkBackToBusinessDay(MinusOneDay(dt), hol)
    ELSE dt

\* faulty variant: the holiday branch stops at the first business day met
RECURSIVE WalkBackCountingStopAtFirst(_, _, _)
WalkBackCountingStopAtFirst(dt, count, hol) ==
    IF count >= 1 THEN dt
    ELSE LET c == IF Weekday(dt) < 5 /\ Strftime(dt) \notin hol
                  THEN count + 1 ELSE count
         IN  IF c < 1 THEN WalkBackCountingStopAtFirst(MinusOneDay(dt), c, hol)
                      ELSE WalkBackCountingStopAtFirst(dt, c, hol)

\* the "while count < 2" loop of the non-business-day branch
RECURSIVE WalkBackCounting(_, _, _)
WalkBackCounting(dt, count, hol) ==
    IF count >= 2 THEN dt
    ELSE LET c == IF Weekday(dt) < 5 /\ Strftime(dt) \notin hol
                  THEN count + 1 ELSE count
         IN  IF c < 2 THEN WalkBackCounting(MinusOneDay(dt), c, hol)
                      ELSE WalkBackCounting(dt, c, hol)

get_recent_business_date(td, hol) ==
    LET dt == Strptime(td)
    IN  IF IsBusinessDay(dt, hol)
        THEN Strftime(WalkBackToBusinessDay(MinusOneDay(dt), hol))
        ELSE Strftime(WalkBackCounting(MinusOneDay(dt), 0, hol))

-----------------------------------------------------------------------------
(* get_next_rebalancing_date: the query over TBL_HOLIDAY *)

\* LEFT(trddate, 6)
Left6(s) == s \div 100

\* SUBSTRING(trddate, 5, 2)
Substring5_2(s) == (s \div 100) % 100

\* faulty variant: the inner query keeps only the rows on or after target_date
S1FromTargetDate(tbl, td) ==
    {r \in tbl : /\ r.trddate >= td
                 /\ r.holiday_yn = "N"
                 /\ Substring5_2(r.trddate) \in {1, 4, 7, 10}}

\* the rows of the sub-query S1 (before numbering)
S1Rows(tbl, td) ==
    {r \in tbl : /\ Left6(r.trddate) >= Left6(td)
                 /\ r.holiday_yn = "N"
                 /\ Substring5_2(r.trddate) \in {1, 4, 7, 10}}

\* ROW_NUMBER() OVER (PARTITION BY LEFT(trddate, 6) ORDER BY trddate ASC)
MonthCnt(S, r) ==
    Cardinality({q \in S : /\ Left6(q.trddate) = Left6(r.trddate)
                           /\ q.trddate <= r.trddate})

SetMin(S) == CHOOSE x \in S : \A y \in S : x <= y

\* SELECT MIN(trddate) ... ; fetchone() gives one row, whose value is NULL
\* when no row qualifies
get_next_rebalancing_date(tbl, td, n) ==
    LET S    == S1Rows(tbl, td)
        hits == {r.trddate : r \in {q \in S : /\ q.trddate >= td
                                              /\ MonthCnt(S, q) = n}}
    IN  IF hits = {} THEN NoDate ELSE SetMin(hits)

-----------------------------------------------------------------------------
(* Text: Python str / SQL varchar values as sequences of characters *)

DigitChars == <<"0", "1", "2", "3", "4", "5", "6", "7", "8", "9">>

\* decimal digits of n >= 0, without leading zeros ("0" for 0)
RECURSIVE Digits(_)
Digits(n) ==
    IF n < 10 THEN <<DigitChars[n + 1]>>
    ELSE Digits(n \div 10) \o <<DigitChars[(n % 10) + 1]>>

\* a "YYYYMMDD" value as its 8 characters
DateText(s) == Digits(s)

\* str.startswith
StartsWith(s, p) == Len(s) >= Len(p) /\ SubSeq(s, 1, Len(p)) = p

\* str.endswith
EndsWith(s, p) ==
    Len(s) >= Len(p) /\ SubSeq(s, Len(s) - Len(p) + 1, Len(s)) = p

\* str.split(sep) for a one-character separator
RECURSIVE SplitFrom(_, _, _, _)
SplitFrom(s, sep, i, cur) ==
    IF i > Len(s) THEN <<cur>>
    ELSE IF s[i] = sep
         THEN <<cur>> \o SplitFrom(s, sep, i + 1, <<>>)
         ELSE SplitFrom(s, sep, i + 1, Append(cur, s[i]))

Split(s, sep) == SplitFrom(s, sep, 1, <<>>)

-----------------------------------------------------------------------------
(* Return aggregation: get_tmp_riskgrade, get_tmp_return,                  *)
(* calculate_performance, merge_terms.  A daily return rtn_1d is the exact *)
(* decimal fraction [n / d] (0.01 is [n |-> 1, d |-> 100]), and so is a    *)
(* product of factors (1 + rtn_1d); total_rt, rounded to two decimals, is  *)
(* held in hundredths of a percent.                                        *)

\* RIGHT(port_cd, 1)
Right1(port_cd) == port_cd[Len(port_cd)]

\* SELECT auth_id, port_cd, RIGHT(port_cd, 1), prd_gb ... GROUP BY
get_tmp_riskgrade(mplist, auth) ==
    {[auth_id |-> r.auth_id, port_cd |-> r.port_cd,
      risk_grade |-> Right1(r.port_cd), prd_gb |-> r.prd_gb] :
        r \in {q \in mplist : q.auth_id = auth}}

\* dt - pd.DateOffset(months=k): the day is clipped to the month's length
MinusMonths(dt, k) ==
    LET idx == dt.y * 12 + (dt.m - 1) - k
        y   == idx \div 12
        m   == (idx % 12) + 1
        dim == DaysInMonth(y, m)
    IN  [y |-> y, m |-> m, d |-> IF dt.d > dim THEN dim ELSE dt.d]

\* (to_datetime(F) - DateOffset(months=k) + DateOffset(days=1)).strftime
WindowStart(F, k) == Strftime(PlusOneDay(MinusMonths(Strptime(F), k)))

\* the list `terms`; DateOffset(years=1) clips like DateOffset(months=12)
Terms(F) ==
    << [term |-> "1d",  start_dt |-> F,                 end_dt |-> F],
       [term |-> "1m",  start_dt |-> WindowStart(F, 1),  end_dt |-> F],
       [term |-> "3m",  start_dt |-> WindowStart(F, 3),  end_dt |-> F],
       [term |-> "6m",  start_dt |-> WindowStart(F, 6),  end_dt |-> F],
       [term |-> "1y",  start_dt |-> WindowStart(F, 12), end_dt |-> F],
       [term |-> "all", start_dt |-> 20181203,           end_dt |-> F] >>

\* faulty variant: the data floor applies to every window
ValidTermsNoExemption(F) ==
    SelectSeq(Terms(F), LAMBDA t : t.start_dt >= 20181204)

\* the list `valid_terms`
ValidTerms(F) ==
    SelectSeq(Terms(F), LAMBDA t : t.start_dt >= 20181204 \/ t.term = "all")

\* the concatenation of the per-term slices of TBL_RESULT_RETURN
get_tmp_return(returns, F) ==
    LET vt == ValidTerms(F)
    IN  UNION {{[auth_id |-> r.auth_id, port_cd |-> r.port_cd,
                 trddate |-> r.trddate, rtn_1d |-> r.rtn_1d,
                 term |-> vt[i].term, start_dt |-> vt[i].start_dt,
                 end_dt |-> vt[i].end_dt] :
                    r \in {q \in returns : /\ q.trddate >= vt[i].start_dt
                                           /\ q.trddate <= vt[i].end_dt}} :
               i \in 1..Len(vt)}

\* faulty variant: the returns of the group are added, not compounded
RECURSIVE SumOnePlus(_)
SumOnePlus(R) ==
    IF R = {} THEN [n |-> 1, d |-> 1]
    ELSE LET r    == CHOOSE x \in R : TRUE
             rest == SumOnePlus(R \ {r})
         IN  [n |-> rest.n * r.rtn_1d.d + r.rtn_1d.n * rest.d,
              d |-> rest.d * r.rtn_1d.d]

\* (x + 1).prod() over the rows R of one group
RECURSIVE ProdOnePlus(_)
ProdOnePlus(R) ==
    IF R = {} THEN [n |-> 1, d |-> 1]
    ELSE LET r    == CHOOSE x \in R : TRUE
             rest == ProdOnePlus(R \ {r})
         IN  [n |-> rest.n * (r.rtn_1d.n + r.rtn_1d.d),
              d |-> rest.d * r.rtn_1d.d]

\* q * 100
Times100(q) ==
    IF q.d % 100 = 0 THEN [n |-> q.n, d |-> q.d \div 100]
    ELSE [n |-> q.n * 100, d |-> q.d]

\* q - 100
Minus100(q) == [n |-> q.n - 100 * q.d, d |-> q.d]

\* faulty variant: the fraction is cut off, not rounded
RoundTowardFloor(n, d) == n \div d

\* n / d rounded to the nearest integer, ties to the even one (d > 0)
RoundHalfEven(n, d) ==
    LET q == n \div d
        r == n % d
    IN  IF 2 * r < d THEN q
        ELSE IF 2 * r > d THEN q + 1
        ELSE IF q % 2 = 0 THEN q ELSE q + 1

\* Series.round(2): the value in hundredths
Round2(q) ==
    LET c == Times100(q) IN RoundHalfEven(c.n, c.d)

\* the rows of tmp_merged that carry a term (left merge on auth_id, port_cd;
\* a portfolio without any return row has term NaN and groupby drops it)
MergedRows(tmp_riskgrade, tmp_return) ==
    UNION {{[auth_id |-> g.auth_id, port_cd |-> g.port_cd,
             risk_grade |-> g.risk_grade, prd_gb |-> g.prd_gb,
             term |-> t.term, trddate |-> t.trddate, rtn_1d |-> t.rtn_1d] :
                t \in {x \in tmp_return : /\ x.auth_id = g.auth_id
                                          /\ x.port_cd = g.port_cd}} :
           g \in tmp_riskgrade}

\* groupby(["auth_id", "term", "risk_grade", "prd_gb"])
GroupKey(r) ==
    [auth_id |-> r.auth_id, term |-> r.term, risk_grade |-> r.risk_grade,
     prd_gb |-> r.prd_gb]

\* .agg(total_rt = (x + 1).prod() * 100 - 100)
AggTotalRt(R) == Minus100(Times100(ProdOnePlus(R)))

calculate_performance(tmp_riskgrade, tmp_return) ==
    LET M    == MergedRows(tmp_riskgrade, tmp_return)
        keys == {GroupKey(r) : r \in M}
    IN  {[auth_id |-> k.auth_id, term |-> k.term,
          risk_grade |-> k.risk_grade, prd_gb |-> k.prd_gb,
          total_rt |-> Round2(AggTotalRt({r \in M : GroupKey(r) = k}))] :
            k \in keys}

get_tmp_performance(mplist, returns, auth, F) ==
    calculate_performance(get_tmp_riskgrade(mplist, auth),
                          get_tmp_return(returns, F))

\* a float column value: <<h>> for h hundredths, <<>> for NaN
NaN == <<>>

\* the total_rt of `term` for the pair of anchor row a: the values a left
\* merge puts in column total_rt_<term>
TermValues(tmp_performance, a, term) ==
    LET hit == {r \in tmp_performance : /\ r.term = term
                                        /\ r.risk_grade = a.risk_grade
                                        /\ r.prd_gb = a.prd_gb}
    IN  IF hit = {} THEN {NaN} ELSE {<<r.total_rt>> : r \in hit}

\* merge_terms(TMP_PERFORMANCE, ["1m", "3m", "6m", "1y", "all"]): the 1d
\* rows, each left-joined with the row of every other term
merge_terms(tmp_performance) ==
    UNION {{[auth_id |-> a.auth_id, risk_grade |-> a.risk_grade,
             prd_gb |-> a.prd_gb, total_rt |-> <<a.total_rt>>,
             total_rt_1m |-> v1m, total_rt_3m |-> v3m, total_rt_6m |-> v6m,
             total_rt_1y |-> v1y, total_rt_all |-> vall] :
                v1m  \in TermValues(tmp_performance, a, "1m"),
                v3m  \in TermValues(tmp_performance, a, "3m"),
                v6m  \in TermValues(tmp_performance, a, "6m"),
                v1y  \in TermValues(tmp_performance, a, "1y"),
                vall \in TermValues(tmp_performance, a, "all")} :
           a \in {r \in tmp_performance : r.term = "1d"}}

\* expected_return_map.get(risk_grade, {}).get(prd_gb, "")
expected_return_map(risk_grade, prd_gb) ==
    IF prd_gb = "f12" THEN
        CASE risk_grade = "1" -> <<"9", ".", "1", "0">>
          [] risk_grade = "2" -> <<"1", "2", ".", "4", "0">>
          [] risk_grade = "3" -> <<"1", "6", ".", "0", "2">>
          [] risk_grade = "4" -> <<"1", "9", ".", "1", "4">>
          [] risk_grade = "5" -> <<"2", "1", ".", "1", "5">>
          [] OTHER -> <<>>
    ELSE IF prd_gb = "f11" THEN
        CASE risk_grade = "1" -> <<"9", ".", "0", "4">>
          [] risk_grade = "2" -> <<"1", "2", ".", "5", "3">>
          [] risk_grade = "3" -> <<"1", "6", ".", "6", "4">>
          [] risk_grade = "4" -> <<"1", "9", ".", "8", "0">>
          [] risk_grade = "5" -> <<"2", "2", ".", "9", "9">>
          [] OTHER -> <<>>
    ELSE <<>>

\* volatility_map.get(risk_grade, {}).get(prd_gb, "")
volatility_map(risk_grade, prd_gb) ==
    IF prd_gb = "f12" THEN
        CASE risk_grade = "1" -> <<"3", ".", "2", "0">>
          [] risk_grade = "2" -> <<"4", ".", "4", "6">>
          [] risk_grade = "3" -> <<"6", ".", "6", "8">>
          [] risk_grade = "4" -> <<"8", ".", "6", "0">>
          [] risk_grade = "5" -> <<"1", "0", ".", "9", "0">>
          [] OTHER -> <<>>
    ELSE IF prd_gb = "f11" THEN
        CASE risk_grade = "1" -> <<"3", ".", "1", "0">>
          [] risk_grade = "2" -> <<"4", ".", "5", "7">>
          [] risk_grade = "3" -> <<"6", ".", "8", "7">>
          [] risk_grade = "4" -> <<"9", ".", "2", "1">>
          [] risk_grade = "5" -> <<"1", "1", ".", "5", "1">>
          [] OTHER -> <<>>
    ELSE <<>>

\* {'f12': '77', 'f11': '61'}.get(prd_gb, '')
ProductCode(prd_gb) ==
    IF prd_gb = "f12" THEN <<"7", "7">>
    ELSE IF prd_gb = "f11" THEN <<"6", "1">>
    ELSE <<>>

\* f"{x}" of a float64 column value rounded to two decimals: the shortest
\* repr ("1.95", "1.9", "2.0", "-0.5"), and "nan" for NaN
FormatFloat(v) ==
    IF v = NaN THEN <<"n", "a", "n">>
    ELSE LET h    == v[1]
             a    == IF h < 0 THEN 0 - h ELSE h
             frac == a % 100
         IN  (IF h < 0 THEN <<"-">> ELSE <<>>)
             \o Digits(a \div 100) \o <<".">>
             \o (IF frac % 10 = 0 THEN <<DigitChars[(frac \div 10) + 1]>>
                 ELSE <<DigitChars[(frac \div 10) + 1],
                        DigitChars[(frac % 10) + 1]>>)

\* position of a prd_gb / risk_grade value in string order
PrdGbRank(g) == IF g = "f11" THEN 1 ELSE IF g = "f12" THEN 2 ELSE 3

CharRank(c) ==
    IF \E i \in 1..10 : DigitChars[i] = c
    THEN CHOOSE i \in 1..10 : DigitChars[i] = c
    ELSE 11

\* faulty variant: risk_grade is the first sort key
RowBeforeRiskGradeFirst(a, b) ==
    \/ CharRank(a.risk_grade) < CharRank(b.risk_grade)
    \/ /\ CharRank(a.risk_grade) = CharRank(b.risk_grade)
       /\ PrdGbRank(a.prd_gb) <= PrdGbRank(b.prd_gb)

RowBefore(a, b) ==
    \/ PrdGbRank(a.prd_gb) < PrdGbRank(b.prd_gb)
    \/ /\ PrdGbRank(a.prd_gb) = PrdGbRank(b.prd_gb)
       /\ CharRank(a.risk_grade) <= CharRank(b.risk_grade)

\* merged.sort_values(by=["prd_gb", "risk_grade"]).reset_index(drop=True)
RECURSIVE SortByPrdGbRiskGrade(_)
SortByPrdGbRiskGrade(R) ==
    IF R = {} THEN <<>>
    ELSE LET first == CHOOSE a \in R : \A b \in R : RowBefore(a, b)
         IN  <<first>> \o SortByPrdGbRiskGrade(R \ {first})

\* faulty variant: the 1-month return follows the 1-day return
ReturnLstTermOrder(row, F) ==
    DateText(F) \o <<";">>
    \o <<row.risk_grade>> \o <<";">>
    \o ProductCode(row.prd_gb) \o <<";">>
    \o FormatFloat(row.total_rt) \o <<";">>
    \o FormatFloat(row.total_rt_1m) \o <<";">>
    \o FormatFloat(row.total_rt_3m) \o <<";">>
    \o FormatFloat(row.total_rt_6m) \o <<";">>
    \o FormatFloat(row.total_rt_1y) \o <<";">>
    \o FormatFloat(row.total_rt_all) \o <<";">>
    \o expected_return_map(row.risk_grade, row.prd_gb) \o <<";">>
    \o volatility_map(row.risk_grade, row.prd_gb) \o <<";">>

\* the f-string of create_return_lst_column
ReturnLst(row, F) ==
    DateText(F) \o <<";">>
    \o <<row.risk_grade>> \o <<";">>
    \o ProductCode(row.prd_gb) \o <<";">>
    \o FormatFloat(row.total_rt) \o <<";">>
    \o FormatFloat(row.total_rt_3m) \o <<";">>
    \o FormatFloat(row.total_rt_6m) \o <<";">>
    \o FormatFloat(row.total_rt_1y) \o <<";">>
    \o FormatFloat(row.total_rt_all) \o <<";">>
    \o expected_return_map(row.risk_grade, row.prd_gb) \o <<";">>
    \o volatility_map(row.risk_grade, row.prd_gb) \o <<";">>
    \o FormatFloat(row.total_rt_1m) \o <<";">>

\* merge_terms ... create_return_lst_column, merged["idx"] = index + 1:
\* the sorted rows, each with its pair, its lst and its idx
MergedWithLst(tmp_performance, F) ==
    LET sorted == SortByPrdGbRiskGrade(merge_terms(tmp_performance))
    IN  [i \in 1..Len(sorted) |->
            [risk_grade |-> sorted[i].risk_grade,
             prd_gb |-> sorted[i].prd_gb,
             idx |-> i,
             lst |-> ReturnLst(sorted[i], F)]]

\* prepare_final_df(merged, sSetFile): columns indate, send_filename, idx, lst
prepare_final_df(merged, sSetFile, current_time) ==
    [i \in 1..Len(merged) |->
        [indate |-> current_time, send_filename |-> sSetFile,
         idx |-> merged[i].idx, lst |-> merged[i].lst]]

-----------------------------------------------------------------------------
(* Inputs of the calendar computations *)

\* most holidays.KR() lists among the candidate dates
MaxHolidays == 3
\* number of consecutive target dates tried from each first date
NumTargetDays == 16
\* largest trading-day ordinal tried (process_rebalcus passes 3)
MaxOpenDay == 3

\* Christmas, year end, New Year (a run joined by a weekend), 1 March
HolidayCandidates == {20231225, 20231229, 20240101, 20240102, 20240301}

TargetDates ==
    {Strftime(AddDays(Strptime(first), n)) :
        first \in {20231222, 20240228}, n \in 0..(NumTargetDays - 1)}

\* TBL_HOLIDAY: one row per calendar date from 1 January 2024 to `last`;
\* Saturdays, Sundays and the dates of `hol` have holiday_yn = 'Y'
HolidayTable(last, hol) ==
    {[trddate |-> s,
      holiday_yn |-> IF Weekday(Strptime(s)) >= 5 \/ s \in hol
                     THEN "Y" ELSE "N"] : s \in DateRange(20240101, last)}

TableHolidayCandidates == {20240101, 20240102, 20240401, 20240403}

TableEnds == {20240102, 20240131, 20240430}

RebalTargetDates ==
    {Strftime(AddDays(Strptime(first), n)) :
        first \in {20231229, 20240329}, n \in 0..(NumTargetDays \div 2)}
    \cup {20240215, 20240501}

CalIdle ==
    /\ kr_holidays = {}
    /\ sFndDate = NoDate

TblIdle ==
    /\ TBL_HOLIDAY = {}
    /\ i_opent_day = 0
    /\ next_rebal_date = NoDate

PerfIdle ==
    /\ TBL_RESULT_MPLIST = {}
    /\ TBL_RESULT_RETURN = {}
    /\ TMP_PERFORMANCE = {}
    /\ TMP_RETURN = {}

RunIdle ==
    /\ TBL_FOSS_BCPDATA = <<>>
    /\ local_file = <<>>
    /\ local_file_path = "unbound"
    /\ remote_file = <<>>
    /\ TBL_EVENT_LOG = <<>>
    /\ TBL_BATCH_PROCESSING_LOG = <<>>
    /\ is_log_event_true = FALSE
    /\ is_log_batch_processing_true = FALSE
    /\ raised = FALSE

RebalIdle ==
    /\ TBL_FOSS_CUSTOMERACCOUNT = {}
    /\ TBL_FOSS_REBAL_CUSTOMER = <<>>
    /\ manual_customer_ids = <<>>
    /\ manual_rebal_yn = <<>>
    /\ forced_rebal_date = <<>>
    /\ final_rebalcus_data = <<>>
    /\ args_manual_customer_ids = <<>>

SrcIdle ==
    /\ TBL_FOSS_UNIVERSE = {}
    /\ TBL_FOSS_REPORT = {}

InIdle ==
    /\ file_contents = <<>>
    /\ TBL_FOSS_CUSTOMERFUND = EmptyBag
    /\ run_count = 0
    /\ rows_of_first_success = <<>>
    /\ exception = "none"

MainIdle ==
    /\ main_pc = "idle"
    /\ sftp = "unbound"
    /\ transport = "unbound"
    /\ connection = "unbound"
    /\ connection_qbt_api = "unbound"
    /\ exit_status = <<>>

-----------------------------------------------------------------------------
(* Specification SpecCal: get_recent_business_date on every input *)

InitCal ==
    /\ InIdle
    /\ MainIdle
    /\ op = "recent_business_date"
    /\ pc = "start"
    /\ target_date \in TargetDates
    /\ kr_holidays \in {h \in SUBSET HolidayCandidates :
                            Cardinality(h) <= MaxHolidays}
    /\ sFndDate = NoDate
    /\ TblIdle
    /\ PerfIdle
    /\ RunIdle
    /\ RebalIdle
    /\ SrcIdle

RecentBusinessDate ==
    /\ op = "recent_business_date"
    /\ pc = "start"
    /\ sFndDate' = get_recent_business_date(target_date, kr_holidays)
    /\ pc' = "done"
    /\ UNCHANGED <<op, target_date, kr_holidays, tblVars, perfVars, runVars,
                   rebalVars,
                   srcVars, inVars, mainVars>>

NextCal == RecentBusinessDate

SpecCal == InitCal /\ [][NextCal]_vars

(* Specification SpecNextRebal: get_next_rebalancing_date on every input *)

InitNextRebal ==
    /\ InIdle
    /\ MainIdle
    /\ op = "next_rebalancing_date"
    /\ pc = "start"
    /\ target_date \in RebalTargetDates
    /\ \E last \in TableEnds, hol \in SUBSET TableHolidayCandidates :
           /\ Cardinality(hol) <= MaxHolidays
           /\ TBL_HOLIDAY = HolidayTable(last, hol)
    /\ i_opent_day \in 1..MaxOpenDay
    /\ next_rebal_date = NoDate
    /\ CalIdle
    /\ PerfIdle
    /\ RunIdle
    /\ RebalIdle
    /\ SrcIdle

NextRebalancingDate ==
    /\ op = "next_rebalancing_date"
    /\ pc = "start"
    /\ next_rebal_date' =
           get_next_rebalancing_date(TBL_HOLIDAY, target_date, i_opent_day)
    /\ pc' = "done"
    /\ UNCHANGED <<op, target_date, calVars, TBL_HOLIDAY, i_opent_day,
                   perfVars, runVars,
                   rebalVars,
                   srcVars, inVars, mainVars>>

NextNextRebal == NextRebalancingDate

SpecNextRebal == InitNextRebal /\ [][NextNextRebal]_vars

-----------------------------------------------------------------------------
(* SEND_MPRATE: process_yesterday_return_data *)

\* SELECT COUNT(auth_id) FROM TBL_RESULT_RETURN WHERE auth_id, trddate
CountResultReturn(returns, F) ==
    Cardinality({r \in returns : r.auth_id = "foss" /\ r.trddate = F})

\* MAX(rebal_date) of the authority; NULL (no date) on no row
MaxRebalDate(mplist) ==
    LET ds == {r.rebal_date : r \in {q \in mplist : q.auth_id = "foss"}}
    IN  IF ds = {} THEN NoDate ELSE CHOOSE d \in ds : \A e \in ds : e <= d

\* SELECT COUNT(S1.port_cd) over the port_cd groups of the latest batch
CountPortCd(mplist) ==
    Cardinality({r.port_cd : r \in {q \in mplist :
                    /\ q.auth_id = "foss"
                    /\ q.rebal_date = MaxRebalDate(mplist)}})

\* faulty variant: the guard never stops the run
CountsDifferNever(returns, mplist, F) == FALSE

\* "if count_result_return != count_port_cd"
CountsDiffer(returns, mplist, F) ==
    CountResultReturn(returns, F) # CountPortCd(mplist)

\* the lst column of a dataframe: the lines to_csv writes
LstColumn(df) == [i \in 1..Len(df) |-> df[i].lst]

\* most portfolio definitions in the latest rebalancing batch
MaxPortfolios == 2
\* most dates that carry return observations
MaxObs == 3
\* most seconds the clock advances inside one run
MaxClockSkew == 1

Clock == 0..MaxClockSkew

PortDefCandidates ==
    {[port_cd |-> <<"A", "1">>, prd_gb |-> "f12"],
     [port_cd |-> <<"B", "1">>, prd_gb |-> "f12"],
     [port_cd |-> <<"A", "2">>, prd_gb |-> "f11"]}

MplistRows(defs, rebal_date) ==
    {[auth_id |-> "foss", port_cd |-> d.port_cd, prd_gb |-> d.prd_gb,
      rebal_date |-> rebal_date] : d \in defs}

\* a batch of another authority, later than every batch of "foss"
OtherAuthMplist ==
    {[auth_id |-> "other", port_cd |-> <<"Z", "5">>, prd_gb |-> "f12",
      rebal_date |-> 20181101]}

\* target dates of SEND_MPRATE runs, and for each the dates that may carry
\* observations: the base date, and dates inside and outside its windows
MpRateTargets == {20240104, 20190103, 20190401}

ObsDates(td) ==
    IF td = 20240104 THEN <<20240103, 20231215, 20231010, 20181203>>
    ELSE IF td = 20190103 THEN <<20190102, 20181220, 20181203, 20181130>>
    ELSE <<20190329, 20190315, 20190102, 20181203>>

RtnValues == <<1, -2, 3>>

PortIndex(port_cd) ==
    IF port_cd = <<"A", "1">> THEN 0 ELSE IF port_cd = <<"B", "1">> THEN 1 ELSE 2

\* the daily return of portfolio port_cd on the i-th date: 1, -2 or 3
\* hundredths for portfolio A2, tenths for the others
RtnPattern(k, port_cd, i) ==
    [n |-> RtnValues[((PortIndex(port_cd) + i + k) % 3) + 1],
     d |-> IF port_cd = <<"A", "2">> THEN 100 ELSE 10]

ReturnRows(ports, td, D, k, gap) ==
    {[auth_id |-> "foss", port_cd |-> p, trddate |-> ObsDates(td)[i],
      rtn_1d |-> RtnPattern(k, p, i - 1)] :
        p \in ports, i \in {j \in D : ~(j = 1 /\ gap)}}
    \cup {[auth_id |-> "foss", port_cd |-> p, trddate |-> ObsDates(td)[1],
           rtn_1d |-> RtnPattern(k, p, 0)] :
            p \in {q \in ports : 1 \in D /\ gap /\ q # <<"A", "1">>}}
    \cup {[auth_id |-> "other", port_cd |-> <<"A", "1">>,
           trddate |-> ObsDates(td)[1], rtn_1d |-> [n |-> 3, d |-> 10]]}

InitMpRate ==
    /\ InIdle
    /\ MainIdle
    /\ op = "SEND_MPRATE"
    /\ pc = "start"
    /\ target_date \in MpRateTargets
    /\ kr_holidays = {}
    /\ sFndDate = NoDate
    /\ TblIdle
    /\ \E L \in SUBSET PortDefCandidates,
          O \in {{}, {[port_cd |-> <<"A", "2">>, prd_gb |-> "f11"]}},
          D \in SUBSET (1..4), k \in 0..1, gap \in BOOLEAN :
           /\ L # {} /\ Cardinality(L) <= MaxPortfolios
           /\ Cardinality(D) <= MaxObs
           /\ TBL_RESULT_MPLIST =
                  MplistRows(L, 20181001) \cup MplistRows(O, 20180702)
                  \cup OtherAuthMplist
           /\ TBL_RESULT_RETURN =
                  ReturnRows({d.port_cd : d \in L \cup O}, target_date, D, k, gap)
    /\ TMP_PERFORMANCE = {}
    /\ TMP_RETURN = {}
    /\ RunIdle
    /\ RebalIdle
    /\ SrcIdle

\* lines 462-499: the counts differ, the function returns from inside the
\* transaction block (which commits nothing)
MpRateNotReady ==
    /\ op = "SEND_MPRATE"
    /\ pc = "start"
    /\ LET F == get_recent_business_date(target_date, kr_holidays)
       IN  /\ CountsDiffer(TBL_RESULT_RETURN, TBL_RESULT_MPLIST, F)
           /\ sFndDate' = F
    /\ pc' = "finally"
    /\ UNCHANGED <<op, target_date, kr_holidays, tblVars, perfVars, runVars,
                   rebalVars,
                   srcVars, inVars, mainVars>>

\* lines 462-528: the transaction block runs to its end and commits
MpRateStage ==
    /\ op = "SEND_MPRATE"
    /\ pc = "start"
    /\ \E now \in Clock :
        LET F      == get_recent_business_date(target_date, kr_holidays)
            perf   == get_tmp_performance(TBL_RESULT_MPLIST,
                                          TBL_RESULT_RETURN, "foss", F)
            merged == MergedWithLst(perf, F)
            final  == prepare_final_df(merged, <<"mp_info", target_date>>, now)
        IN  /\ ~CountsDiffer(TBL_RESULT_RETURN, TBL_RESULT_MPLIST, F)
            /\ sFndDate' = F
            /\ TMP_PERFORMANCE' = perf
            /\ TMP_RETURN' = get_tmp_return(TBL_RESULT_RETURN, F)
            /\ TBL_FOSS_BCPDATA' = TBL_FOSS_BCPDATA \o final
            /\ local_file' = <<LstColumn(final)>>
    /\ local_file_path' = "bound"
    /\ pc' = "upload"
    /\ UNCHANGED <<op, target_date, kr_holidays, tblVars, TBL_RESULT_MPLIST,
                   TBL_RESULT_RETURN, remote_file, TBL_EVENT_LOG,
                   TBL_BATCH_PROCESSING_LOG, is_log_event_true,
                   is_log_batch_processing_true, raised,
                   rebalVars,
                   srcVars, inVars, mainVars>>

\* lines 501-528 raise (a query, the insert, to_csv or the commit fails):
\* the transaction rolls back; the file exists only if to_csv had run
MpRateStageFails ==
    /\ op = "SEND_MPRATE"
    /\ pc = "start"
    /\ \E at \in {"before_to_csv", "commit"}, now \in Clock :
        LET F      == get_recent_business_date(target_date, kr_holidays)
            perf   == get_tmp_performance(TBL_RESULT_MPLIST,
                                          TBL_RESULT_RETURN, "foss", F)
            final  == prepare_final_df(MergedWithLst(perf, F), <<"mp_info", target_date>>, now)
        IN  /\ ~CountsDiffer(TBL_RESULT_RETURN, TBL_RESULT_MPLIST, F)
            /\ sFndDate' = F
            /\ IF at = "commit"
               THEN /\ TMP_PERFORMANCE' = perf
                    /\ TMP_RETURN' = get_tmp_return(TBL_RESULT_RETURN, F)
                    /\ local_file' = <<LstColumn(final)>>
                    /\ local_file_path' = "bound"
               ELSE UNCHANGED <<TMP_PERFORMANCE, TMP_RETURN, local_file,
                                local_file_path>>
    /\ pc' = "except"
    /\ UNCHANGED <<op, target_date, kr_holidays, tblVars, TBL_RESULT_MPLIST,
                   TBL_RESULT_RETURN, TBL_FOSS_BCPDATA, remote_file, TBL_EVENT_LOG,
                   TBL_BATCH_PROCESSING_LOG, is_log_event_true,
                   is_log_batch_processing_true, raised,
                   rebalVars,
                   srcVars, inVars, mainVars>>

\* sftp_client.put(local_path, remote_path)
Upload ==
    /\ pc = "upload"
    /\ remote_file' = local_file
    /\ pc' = "log_success"
    /\ UNCHANGED <<op, target_date, calVars, tblVars, perfVars,
                   TBL_FOSS_BCPDATA, local_file, local_file_path,
                   TBL_EVENT_LOG, TBL_BATCH_PROCESSING_LOG,
                   is_log_event_true, is_log_batch_processing_true, raised,
                   rebalVars,
                   srcVars, inVars, mainVars>>

\* faulty variant: put is inside the transaction block, so that its failure
\* rolls back the rows the run has inserted
UploadFailsInTransaction ==
    /\ pc = "upload"
    /\ pc' = "except"
    /\ TBL_FOSS_BCPDATA' = SelectSeq(TBL_FOSS_BCPDATA, LAMBDA r : r.indate < 0)
    /\ UNCHANGED <<op, target_date, calVars, tblVars, perfVars,
                   local_file, local_file_path, remote_file,
                   TBL_EVENT_LOG, TBL_BATCH_PROCESSING_LOG,
                   is_log_event_true, is_log_batch_processing_true, raised,
                   rebalVars,
                   srcVars, inVars, mainVars>>

\* sftp_client.put raises
UploadFails ==
    /\ pc = "upload"
    /\ pc' = "except"
    /\ UNCHANGED <<op, target_date, calVars, tblVars, perfVars, runVars,
                   rebalVars,
                   srcVars, inVars, mainVars>>

\* log_event(result="true") and log_batch_processing(result="success")
LogSuccess ==
    /\ pc = "log_success"
    /\ TBL_EVENT_LOG' = Append(TBL_EVENT_LOG, "true")
    /\ is_log_event_true' = TRUE
    /\ TBL_BATCH_PROCESSING_LOG' = Append(TBL_BATCH_PROCESSING_LOG, "success")
    /\ is_log_batch_processing_true' = TRUE
    /\ pc' = "finally"
    /\ UNCHANGED <<op, target_date, calVars, tblVars, perfVars,
                   TBL_FOSS_BCPDATA, local_file, local_file_path,
                   remote_file, raised,
                   rebalVars,
                   srcVars, inVars, mainVars>>

\* log_event raises, or it succeeds and log_batch_processing raises
LogSuccessFails ==
    /\ pc = "log_success"
    /\ \E at \in {"log_event", "log_batch_processing"} :
        IF at = "log_event"
        THEN UNCHANGED <<TBL_EVENT_LOG, is_log_event_true>>
        ELSE /\ TBL_EVENT_LOG' = Append(TBL_EVENT_LOG, "true")
             /\ is_log_event_true' = TRUE
    /\ pc' = "except"
    /\ UNCHANGED <<op, target_date, calVars, tblVars, perfVars,
                   TBL_FOSS_BCPDATA, local_file, local_file_path,
                   remote_file, TBL_BATCH_PROCESSING_LOG,
                   is_log_batch_processing_true, raised,
                   rebalVars,
                   srcVars, inVars, mainVars>>

\* the except clause: failure records unless the success ones were
\* written, then raise
Except ==
    /\ pc = "except"
    /\ TBL_EVENT_LOG' = IF is_log_event_true THEN TBL_EVENT_LOG
                        ELSE Append(TBL_EVENT_LOG, "false")
    /\ TBL_BATCH_PROCESSING_LOG' =
           IF is_log_batch_processing_true THEN TBL_BATCH_PROCESSING_LOG
           ELSE Append(TBL_BATCH_PROCESSING_LOG, "failed")
    /\ raised' = TRUE
    /\ pc' = "finally"
    /\ UNCHANGED <<op, target_date, calVars, tblVars, perfVars,
                   TBL_FOSS_BCPDATA, local_file, local_file_path,
                   remote_file, is_log_event_true,
                   is_log_batch_processing_true,
                   rebalVars,
                   srcVars, inVars, mainVars>>

\* whether the function has raised once the finally clause is over: reading
\* the unbound local_file_path raises inside the inner try, whose except
\* clause only logs
FinallyRaised == raised

\* faulty variant: the removal is the last statement of the try block, so
\* that a run that failed keeps its file
FinallyAfterSuccessOnly ==
    /\ pc = "finally"
    /\ local_file' = IF local_file_path = "bound" /\ ~raised THEN <<>>
                     ELSE local_file
    /\ raised' = FinallyRaised
    /\ pc' = "done"
    /\ UNCHANGED <<op, target_date, calVars, tblVars, perfVars,
                   TBL_FOSS_BCPDATA, local_file_path, remote_file,
                   TBL_EVENT_LOG, TBL_BATCH_PROCESSING_LOG,
                   is_log_event_true, is_log_batch_processing_true,
                   rebalVars,
                   srcVars, inVars, mainVars>>

\* the finally clause: remove the local file if the path is bound and the
\* file exists; os.remove may raise (the file is held open by another
\* process, the directory is read-only), and the inner except clause then
\* logs the error and leaves the file; an unbound path raises there too
Finally ==
    /\ pc = "finally"
    /\ \/ /\ local_file' = IF local_file_path = "bound" THEN <<>>
                            ELSE local_file
          /\ UNCHANGED exception
       \/ /\ local_file_path = "bound"
          /\ local_file # <<>>
          /\ local_file' = local_file
          /\ exception' = "OSError"
    /\ raised' = FinallyRaised
    /\ pc' = "done"
    /\ UNCHANGED <<op, target_date, calVars, tblVars, perfVars,
                   TBL_FOSS_BCPDATA, local_file_path, remote_file,
                   TBL_EVENT_LOG, TBL_BATCH_PROCESSING_LOG,
                   is_log_event_true, is_log_batch_processing_true,
                   rebalVars,
                   srcVars, file_contents, TBL_FOSS_CUSTOMERFUND, run_count,
                   rows_of_first_success, mainVars>>

NextMpRate ==
    \/ MpRateNotReady
    \/ MpRateStage
    \/ MpRateStageFails
    \/ Upload
    \/ UploadFails
    \/ LogSuccess
    \/ LogSuccessFails
    \/ Except
    \/ Finally

SpecMpRate == InitMpRate /\ [][NextMpRate]_vars

(* Specification SpecTmpReturn: get_tmp_return on every input *)

\* base dates whose window starts fall on, before and after the data floor
\* and on clipped month ends
BaseDates ==
    {20181203, 20190102, 20190103, 20190329, 20190531, 20190603,
     20191202, 20191203, 20240103}

\* dates that may carry a return observation
TmpReturnObsDates ==
    {20181130, 20181203, 20181204, 20190102, 20190103, 20190301,
     20190329, 20190603, 20191203, 20240103}

InitTmpReturn ==
    /\ InIdle
    /\ MainIdle
    /\ op = "get_tmp_return"
    /\ pc = "start"
    /\ target_date = NoDate
    /\ kr_holidays = {}
    /\ sFndDate \in BaseDates
    /\ TblIdle
    /\ TBL_RESULT_MPLIST = {}
    /\ \E D \in SUBSET TmpReturnObsDates :
           /\ Cardinality(D) <= MaxObs
           /\ TBL_RESULT_RETURN =
                  {[auth_id |-> "foss", port_cd |-> <<"A", "1">>,
                    trddate |-> d, rtn_1d |-> [n |-> 1, d |-> 100]] :
                        d \in D}
    /\ TMP_PERFORMANCE = {}
    /\ TMP_RETURN = {}
    /\ RunIdle
    /\ RebalIdle
    /\ SrcIdle

TmpReturn ==
    /\ op = "get_tmp_return"
    /\ pc = "start"
    /\ TMP_RETURN' = get_tmp_return(TBL_RESULT_RETURN, sFndDate)
    /\ pc' = "done"
    /\ UNCHANGED <<op, target_date, calVars, tblVars, TBL_RESULT_MPLIST,
                   TBL_RESULT_RETURN, TMP_PERFORMANCE, runVars, rebalVars,
                   srcVars, inVars, mainVars>>

NextTmpReturn == TmpReturn

SpecTmpReturn == InitTmpReturn /\ [][NextTmpReturn]_vars

-----------------------------------------------------------------------------
(* SEND_REBALCUS: process_rebalcus *)

\* faulty variant: the product group of the event is not looked at
check_rebalancing_any_prd_gb(mplist, td, auth_id, prd_gb) ==
    IF {r \in mplist : r.auth_id = auth_id /\ r.rebal_date = td} = {}
    THEN "N" ELSE "Y"

\* CASE WHEN COUNT(*) = 0 THEN 'N' ELSE 'Y' END over the events of the
\* authority and product group dated target_date
check_rebalancing(mplist, td, auth_id, prd_gb) ==
    IF {r \in mplist : /\ r.auth_id = auth_id
                       /\ r.rebal_date = td
                       /\ r.prd_gb = prd_gb} = {}
    THEN "N" ELSE "Y"

\* a NULL varchar value: no sequence of characters equals it
NullText == <<"NULL">>

\* string order of two customer ids
RECURSIVE TextLeq(_, _)
TextLeq(a, b) ==
    IF a = <<>> THEN TRUE
    ELSE IF b = <<>> THEN FALSE
    ELSE IF a[1] = b[1] THEN TextLeq(Tail(a), Tail(b))
    ELSE CharRank(a[1]) < CharRank(b[1])

\* ROW_NUMBER() OVER (ORDER BY customer_id ASC)
RECURSIVE OrderByCustomerId(_)
OrderByCustomerId(R) ==
    IF R = {} THEN <<>>
    ELSE LET first == CHOOSE a \in R :
                          \A b \in R : TextLeq(a.customer_id, b.customer_id)
         IN  <<first>> \o OrderByCustomerId(R \ {first})

\* the CASE expression of the select list
RebalFlag(rebal_day_yn, order_status) ==
    IF rebal_day_yn = "N" THEN "N"
    ELSE IF rebal_day_yn = "Y" /\ order_status \in {"Y", "Y1", "Y3"}
         THEN "Y"
         ELSE "N"

\* customer_id + ';' + flag + ';' + :next_rebal_date + ';', NULL when the
\* next rebalancing date is NULL
RebalLst(r, rebal_day_yn, nrd) ==
    IF nrd = NoDate THEN NullText
    ELSE r.customer_id \o <<";">>
         \o <<RebalFlag(rebal_day_yn, r.order_status)>> \o <<";">>
         \o DateText(nrd) \o <<";">>

\* the rows of the group dated target_date, numbered by customer_id
fetch_rebalcus_data(accounts, td, investgb, rebal_day_yn, nrd, sSetFile, indate) ==
    LET rows == OrderByCustomerId({r \in accounts :
                    r.trddate = td /\ r.investgb = investgb})
    IN  [i \in 1..Len(rows) |->
            [indate |-> indate, send_filename |-> sSetFile, idx |-> i,
             lst |-> RebalLst(rows[i], rebal_day_yn, nrd)]]

\* faulty variant: the rows keep the idx of their own query
prepare_final_rebalcus_df_keep_idx(dataframes) ==
    dataframes[1] \o dataframes[2]

\* pd.concat(dataframes), idx = 1..N
prepare_final_rebalcus_df(dataframes) ==
    LET combined == dataframes[1] \o dataframes[2]
    IN  [i \in 1..Len(combined) |-> [combined[i] EXCEPT !.idx = i]]

\* faulty variant: the dataframe is matched on the bare customer id
DfMatchesBarePrefix(lst, customer_id) == StartsWith(lst, customer_id)

\* final_rebalcus_data["lst"].str.startswith(f"{customer_id};")
DfMatches(lst, customer_id) == StartsWith(lst, customer_id \o <<";">>)

\* lst LIKE '<customer_id>%;'
SqlLike(lst, customer_id) ==
    /\ lst # NullText
    /\ Len(lst) >= Len(customer_id) + 1
    /\ StartsWith(lst, customer_id)
    /\ EndsWith(lst, <<";">>)

\* the loop of update_manual_rebalancing from its k-th customer on;
\* st holds the dataframe, TBL_FOSS_BCPDATA and rebal_cus_df
RECURSIVE ManualLoop(_, _, _, _, _, _, _)
ManualLoop(st, ids, k, yn, frd, td, sSetFile) ==
    IF k > Len(ids) THEN st
    ELSE
      LET customer_id == ids[k]
          updated_lst_value ==
              customer_id \o <<";">> \o yn \o <<";">> \o frd \o <<";">>
          df == [i \in 1..Len(st.df) |->
                    IF DfMatches(st.df[i].lst, customer_id)
                    THEN [st.df[i] EXCEPT !.lst = updated_lst_value]
                    ELSE st.df[i]]
          bcp == [i \in 1..Len(st.bcp) |->
                    IF /\ st.bcp[i].send_filename = sSetFile
                       /\ st.bcp[i].indate = df[1].indate
                       /\ SqlLike(st.bcp[i].lst, customer_id)
                    THEN [st.bcp[i] EXCEPT !.lst = updated_lst_value]
                    ELSE st.bcp[i]]
          new_row == [rebaldate |-> frd, customer_id |-> customer_id,
                      regdate |-> td, rebal_yn |-> yn]
      IN  ManualLoop([df |-> df, bcp |-> bcp,
                      rebal_cus_df |-> Append(st.rebal_cus_df, new_row)],
                     ids, k + 1, yn, frd, td, sSetFile)

\* update_manual_rebalancing raises: a NULL lst makes the mask of .loc
\* non-boolean, an empty dataframe has no iloc[0]
ManualRaises(df, ids) ==
    /\ Len(ids) > 0
    /\ \/ Len(df) = 0
       \/ \E i \in 1..Len(df) : df[i].lst = NullText

\* update_manual_rebalancing: the dataframe, TBL_FOSS_BCPDATA and
\* TBL_FOSS_REBAL_CUSTOMER after it
update_manual_rebalancing(df, bcp, audit, ids, yn, frd, td, sSetFile) ==
    LET st == ManualLoop([df |-> df, bcp |-> bcp, rebal_cus_df |-> <<>>],
                         ids, 1, yn, frd, td, sSetFile)
    IN  [df |-> st.df, bcp |-> st.bcp, audit |-> audit \o st.rebal_cus_df]

\* "manual_customer_ids is not None and manual_rebal_yn is not None and
\* forced_rebal_date is not None"
ManualGiven(ids, yn, frd) == ids # <<>> /\ yn # <<>> /\ frd # <<>>

\* the characters of s with every double quote doubled
RECURSIVE DoubleQuotes(_)
DoubleQuotes(s) ==
    IF s = <<>> THEN <<>>
    ELSE (IF s[1] = "\"" THEN <<"\"", "\"">> ELSE <<s[1]>>)
         \o DoubleQuotes(Tail(s))

\* a line of to_csv: a NULL value is the empty field, which the csv writer
\* quotes when it is the only field of its row; a value that holds the
\* delimiter, a quote or a line break is quoted
CsvLine(lst) ==
    IF lst = NullText THEN <<"\"", "\"">>
    ELSE IF \E i \in 1..Len(lst) : lst[i] \in {",", "\"", "\r", "\n"}
         THEN <<"\"">> \o DoubleQuotes(lst) \o <<"\"">>
         ELSE lst

\* final_rebalcus_data[["lst"]].to_csv(header=False, index=False)
ToCsv(df) == [i \in 1..Len(df) |-> CsvLine(df[i].lst)]

\* the transaction block of process_rebalcus with the two fetches stamped
\* t1 and t2 (seconds after the start of the run): the next rebalancing date, the dataframe, the tables and
\* whether the manual update raises
RebalTransaction(t1, t2) ==
    LET sSetFile     == <<"ap_reval_yn", target_date>>
        sRebalDayYN  == check_rebalancing(TBL_RESULT_MPLIST, target_date,
                                          "foss", "f12")
        sRebalDayYN2 == check_rebalancing(TBL_RESULT_MPLIST, target_date,
                                          "foss", "f11")
        nrd          == get_next_rebalancing_date(TBL_HOLIDAY, target_date, 3)
        pension_data == fetch_rebalcus_data(TBL_FOSS_CUSTOMERACCOUNT,
                            target_date, "77", sRebalDayYN, nrd, sSetFile, t1)
        general_data == fetch_rebalcus_data(TBL_FOSS_CUSTOMERACCOUNT,
                            target_date, "61", sRebalDayYN2, nrd, sSetFile, t2)
        final  == prepare_final_rebalcus_df(<<pension_data, general_data>>)
        staged == TBL_FOSS_BCPDATA \o final
        manual == ManualGiven(manual_customer_ids, manual_rebal_yn,
                              forced_rebal_date)
        fails  == manual /\ ManualRaises(final, manual_customer_ids[1])
        after  == IF manual /\ ~fails
                  THEN update_manual_rebalancing(final, staged,
                           TBL_FOSS_REBAL_CUSTOMER, manual_customer_ids[1],
                           manual_rebal_yn[1], forced_rebal_date[1],
                           target_date, sSetFile)
                  ELSE [df |-> final, bcp |-> staged,
                        audit |-> TBL_FOSS_REBAL_CUSTOMER]
    IN  [nrd |-> nrd, df |-> after.df, bcp |-> after.bcp,
         audit |-> after.audit, fails |-> fails]

\* most account rows dated target_date
MaxAccounts == 2

C10083 == <<"1", "0", "0", "8", "3">>
C100831 == <<"1", "0", "0", "8", "3", "1">>
C10096 == <<"1", "0", "0", "9", "6">>

\* the accounts a run may find: customer and investment group
AccountCandidates ==
    <<[customer_id |-> C10083, investgb |-> "77"],
      [customer_id |-> C100831, investgb |-> "77"],
      [customer_id |-> C10096, investgb |-> "61"],
      [customer_id |-> C10083, investgb |-> "61"]>>

OrderStatuses == <<"Y", "Y1", "Y3", "N", "Y2">>

\* the accounts A dated td, their order statuses rotated by s, and an
\* account row of another date
AccountRows(A, s, td) ==
    {[trddate |-> td,
      customer_id |-> AccountCandidates[i].customer_id,
      investgb |-> AccountCandidates[i].investgb,
      order_status |-> OrderStatuses[((i + s) % Len(OrderStatuses)) + 1]] :
        i \in A}
    \cup {[trddate |-> 20240103, customer_id |-> C10096, investgb |-> "77",
           order_status |-> "Y"]}

\* rebalance events of the product groups E dated td, with events of
\* another authority on td and events of "foss" on another date
RebalEvents(E, td) ==
    {[auth_id |-> "foss", port_cd |-> <<"A", "1">>, prd_gb |-> g,
      rebal_date |-> td] : g \in E}
    \cup {[auth_id |-> a.auth_id, port_cd |-> <<"Z", "5">>, prd_gb |-> g,
           rebal_date |-> a.rebal_date] :
            g \in {"f12", "f11"},
            a \in {[auth_id |-> "other", rebal_date |-> td],
                   [auth_id |-> "foss", rebal_date |-> 20231005]}}

ManualIdLists ==
    {<<C10083>>, <<C100831, C10083>>, <<C10096, C10083>>}

\* a --manual_customer_ids value
ManualIdsArgument == C10083 \o <<",">> \o C10096

\* manual_customer_ids=args.manual_customer_ids: the text itself is passed,
\* and the loop over it takes its characters one by one
ManualIdsOfArgument(text) == [i \in 1..Len(text) |-> <<text[i]>>]

\* an override recorded by an earlier run
PriorRebalCustomer ==
    <<[rebaldate |-> DateText(20231115), customer_id |-> C10096,
       regdate |-> 20231110, rebal_yn |-> <<"Y">>]>>

\* a row staged by an earlier run of the same day
PriorBcpdata(td) ==
    <<[indate |-> -1, send_filename |-> <<"ap_reval_yn", td>>, idx |-> 1,
       lst |-> C10083 \o <<";", "N", ";">> \o DateText(20240403) \o <<";">>]>>

InitRebal ==
    /\ InIdle
    /\ MainIdle
    /\ op = "SEND_REBALCUS"
    /\ pc = "start"
    /\ target_date = 20240104
    /\ CalIdle
    /\ TBL_HOLIDAY \in {HolidayTable(20240430, {}), HolidayTable(20240131, {})}
    /\ i_opent_day = 0
    /\ next_rebal_date = NoDate
    /\ \E E \in SUBSET {"f12", "f11"} :
           TBL_RESULT_MPLIST = RebalEvents(E, target_date)
    /\ TBL_RESULT_RETURN = {}
    /\ TMP_PERFORMANCE = {}
    /\ TMP_RETURN = {}
    /\ \E A \in SUBSET (1..Len(AccountCandidates)),
          s \in 0..(Len(OrderStatuses) - 1) :
           /\ Cardinality(A) <= MaxAccounts
           /\ TBL_FOSS_CUSTOMERACCOUNT = AccountRows(A, s, target_date)
    /\ TBL_FOSS_REBAL_CUSTOMER = PriorRebalCustomer
    /\ \/ /\ args_manual_customer_ids = <<>>
          /\ manual_customer_ids = <<>>
          /\ manual_rebal_yn = <<>>
          /\ forced_rebal_date = <<>>
       \/ /\ args_manual_customer_ids = <<>>
          /\ manual_customer_ids \in {<<ids>> : ids \in ManualIdLists}
          /\ manual_rebal_yn \in {<<<<"Y">>>>, <<<<"N">>>>}
          /\ forced_rebal_date = <<DateText(20240115)>>
       \/ /\ args_manual_customer_ids = <<>>
          /\ manual_customer_ids = <<<<C10083>>>>
          /\ manual_rebal_yn = <<>>
          /\ forced_rebal_date = <<DateText(20240115)>>
       \/ /\ args_manual_customer_ids = <<ManualIdsArgument>>
          /\ manual_customer_ids =
                 <<ManualIdsOfArgument(args_manual_customer_ids[1])>>
          /\ manual_rebal_yn = <<<<"Y">>>>
          /\ forced_rebal_date = <<DateText(20240115)>>
    /\ final_rebalcus_data = <<>>
    /\ TBL_FOSS_BCPDATA = PriorBcpdata(target_date)
    /\ local_file = <<>>
    /\ local_file_path = "unbound"
    /\ remote_file = <<>>
    /\ TBL_EVENT_LOG = <<>>
    /\ TBL_BATCH_PROCESSING_LOG = <<>>
    /\ is_log_event_true = FALSE
    /\ is_log_batch_processing_true = FALSE
    /\ raised = FALSE
    /\ SrcIdle

\* lines 730-787: the transaction block runs to its end and commits
RebalStage ==
    /\ op = "SEND_REBALCUS"
    /\ pc = "start"
    /\ \E skew \in Clock :
        LET tx == RebalTransaction(0, skew)
        IN  /\ ~tx.fails
            /\ next_rebal_date' = tx.nrd
            /\ final_rebalcus_data' = tx.df
            /\ TBL_FOSS_BCPDATA' = tx.bcp
            /\ TBL_FOSS_REBAL_CUSTOMER' = tx.audit
            /\ local_file' = <<ToCsv(tx.df)>>
    /\ i_opent_day' = 3
    /\ local_file_path' = "bound"
    /\ pc' = "upload"
    /\ UNCHANGED <<op, target_date, calVars, TBL_HOLIDAY, perfVars,
                   remote_file, TBL_EVENT_LOG, TBL_BATCH_PROCESSING_LOG,
                   is_log_event_true, is_log_batch_processing_true, raised,
                   TBL_FOSS_CUSTOMERACCOUNT, manual_customer_ids,
                   manual_rebal_yn, forced_rebal_date,
                   args_manual_customer_ids,
                   srcVars, inVars, mainVars>>

\* lines 730-787 raise (a query, the insert, the manual update, to_csv or
\* the commit fails): the transaction rolls back; the file exists only if
\* to_csv had run
RebalStageFails ==
    /\ op = "SEND_REBALCUS"
    /\ pc = "start"
    /\ \E at \in {"before_to_csv", "commit"}, skew \in Clock :
        LET tx == RebalTransaction(0, skew)
        IN  /\ tx.fails => at = "before_to_csv"
            /\ IF at = "commit"
               THEN /\ next_rebal_date' = tx.nrd
                    /\ i_opent_day' = 3
                    /\ final_rebalcus_data' = tx.df
                    /\ local_file' = <<ToCsv(tx.df)>>
                    /\ local_file_path' = "bound"
               ELSE UNCHANGED <<next_rebal_date, i_opent_day,
                                final_rebalcus_data, local_file,
                                local_file_path>>
    /\ pc' = "except"
    /\ UNCHANGED <<op, target_date, calVars, TBL_HOLIDAY, perfVars,
                   TBL_FOSS_BCPDATA, remote_file, TBL_EVENT_LOG,
                   TBL_BATCH_PROCESSING_LOG, is_log_event_true,
                   is_log_batch_processing_true, raised,
                   TBL_FOSS_CUSTOMERACCOUNT, TBL_FOSS_REBAL_CUSTOMER,
                   manual_customer_ids, manual_rebal_yn, forced_rebal_date,
                   args_manual_customer_ids,
                   srcVars, inVars, mainVars>>

NextRebal ==
    \/ RebalStage
    \/ RebalStageFails
    \/ Upload
    \/ UploadFails
    \/ LogSuccess
    \/ LogSuccessFails
    \/ Except
    \/ Finally

SpecRebal == InitRebal /\ [][NextRebal]_vars

-----------------------------------------------------------------------------
(* SEND_MPLIST: process_mp_list *)

\* the sequences that hold every element of the set S once
Orderings(S) ==
    {f \in [1..Cardinality(S) -> S] :
        \A i \in 1..Cardinality(S), j \in 1..Cardinality(S) :
            f[i] = f[j] => i = j}

\* the join of fetch_mp_list_data: the rows of the latest batch of each
\* portfolio dated on or before target_date, each with the fund name of the
\* latest universe (NULL without a match)
MpListJoin(mplist, universe, td, auth_id) ==
    LET batch == {x \in mplist : x.auth_id = auth_id /\ x.rebal_date <= td}
        S3 == {[port_cd |-> r.port_cd, rebal_date |-> r.rebal_date] :
                  r \in {x \in batch :
                            \A q \in batch : q.port_cd = x.port_cd
                                              => q.rebal_date <= x.rebal_date}}
        S1 == {r \in mplist :
                  /\ r.auth_id = auth_id
                  /\ [port_cd |-> r.port_cd, rebal_date |-> r.rebal_date]
                         \in S3}
        latest == {u \in universe : \A v \in universe : v.trddate <= u.trddate}
        names(r) == {u.fund_nm : u \in {v \in latest : v.fund_cd = r.prd_cd}}
    IN  UNION {{[port_cd |-> r.port_cd, prd_gb |-> r.prd_gb,
                 prd_cd |-> r.prd_cd, prd_weight |-> r.prd_weight,
                 fund_nm |-> nm] :
                    nm \in IF names(r) = {} THEN {NullText} ELSE names(r)} :
               r \in S1}

\* the results the query may return: ORDER BY S1.port_cd ASC leaves the
\* order of the rows of one portfolio open
fetch_mp_list_data(mplist, universe, td, auth_id) ==
    {f \in Orderings(MpListJoin(mplist, universe, td, auth_id)) :
        \A i \in 1..Len(f), j \in 1..Len(f) :
            i < j => TextLeq(f[i].port_cd, f[j].port_cd)}

\* x[:100] if len(x) > 100 else x
Truncate100(x) == IF Len(x) > 100 THEN SubSeq(x, 1, 100) ELSE x

\* (prd_weight / 100).round(2).astype(str), prd_weight in tenths of a
\* percent
WeightText(prd_weight) == FormatFloat(<<RoundHalfEven(prd_weight, 10)>>)

\* the lst of preprocess_mp_list_data; NaN when prd_gb has no mapping
MpListLst(r) ==
    IF r.prd_gb \notin {"f12", "f11"} THEN NullText
    ELSE <<Right1(r.port_cd)>> \o <<";">>
         \o ProductCode(r.prd_gb) \o <<";">>
         \o r.prd_cd \o <<";">>
         \o Truncate100(IF r.fund_nm = NullText THEN <<>> ELSE r.fund_nm)
         \o <<";">>
         \o WeightText(r.prd_weight) \o <<";">>

\* faulty variant: idx is the dataframe index itself
preprocess_mp_list_data_zero_based(raw_df) ==
    [i \in 1..Len(raw_df) |-> [idx |-> i - 1, lst |-> MpListLst(raw_df[i])]]

\* preprocess_mp_list_data: lst and idx = index + 1
preprocess_mp_list_data(raw_df) ==
    [i \in 1..Len(raw_df) |-> [idx |-> i, lst |-> MpListLst(raw_df[i])]]

\* most rows of TBL_RESULT_MPLIST and of TBL_FOSS_REPORT a run may find
MaxSourceRows == 3

\* product rows of portfolios: the latest batch of A1 and A2, a batch that
\* A1 has superseded, and a batch dated after target_date
MpListCandidates ==
    <<[port_cd |-> <<"A", "1">>, prd_gb |-> "f12", prd_cd |-> <<"K", "1">>,
       prd_weight |-> 250, rebal_date |-> 20231005],
      [port_cd |-> <<"A", "1">>, prd_gb |-> "f12", prd_cd |-> <<"K", "2">>,
       prd_weight |-> 750, rebal_date |-> 20231005],
      [port_cd |-> <<"A", "2">>, prd_gb |-> "f11", prd_cd |-> <<"K", "1">>,
       prd_weight |-> 1000, rebal_date |-> 20231005],
      [port_cd |-> <<"A", "1">>, prd_gb |-> "f12", prd_cd |-> <<"K", "2">>,
       prd_weight |-> 1000, rebal_date |-> 20230705],
      [port_cd |-> <<"A", "2">>, prd_gb |-> "f11", prd_cd |-> <<"K", "2">>,
       prd_weight |-> 333, rebal_date |-> 20240110]>>

MpListProductRows(A) ==
    {[auth_id |-> "foss", port_cd |-> MpListCandidates[i].port_cd,
      prd_gb |-> MpListCandidates[i].prd_gb,
      prd_cd |-> MpListCandidates[i].prd_cd,
      prd_weight |-> MpListCandidates[i].prd_weight,
      rebal_date |-> MpListCandidates[i].rebal_date] : i \in A}
    \cup {[auth_id |-> "other", port_cd |-> <<"Z", "5">>, prd_gb |-> "f12",
           prd_cd |-> <<"K", "1">>, prd_weight |-> 1000,
           rebal_date |-> 20231005]}

\* the universe of the latest date names the funds in K (one name holds a
\* comma); an older universe names them otherwise
UniverseRows(K) ==
    {[trddate |-> 20240103, fund_cd |-> k,
      fund_nm |-> IF k = <<"K", "1">> THEN <<"F", "a">>
                  ELSE <<"F", ",", "b">>] : k \in K}
    \cup {[trddate |-> 20231229, fund_cd |-> <<"K", "2">>,
           fund_nm |-> <<"o", "l", "d">>]}

InitMpList ==
    /\ InIdle
    /\ MainIdle
    /\ op = "SEND_MPLIST"
    /\ pc = "start"
    /\ target_date = 20240104
    /\ CalIdle
    /\ TblIdle
    /\ \E A \in SUBSET (1..Len(MpListCandidates)) :
           /\ Cardinality(A) <= MaxSourceRows
           /\ TBL_RESULT_MPLIST = MpListProductRows(A)
    /\ TBL_RESULT_RETURN = {}
    /\ TMP_PERFORMANCE = {}
    /\ TMP_RETURN = {}
    /\ RunIdle
    /\ RebalIdle
    /\ \E K \in SUBSET {<<"K", "1">>, <<"K", "2">>} :
           TBL_FOSS_UNIVERSE = UniverseRows(K)
    /\ TBL_FOSS_REPORT = {}

\* lines 612-633: the transaction block runs to its end and commits
MpListStage ==
    /\ op = "SEND_MPLIST"
    /\ pc = "start"
    /\ \E now \in Clock,
          raw_df \in fetch_mp_list_data(TBL_RESULT_MPLIST, TBL_FOSS_UNIVERSE,
                                        target_date, "foss") :
        LET final_df == prepare_final_df(preprocess_mp_list_data(raw_df),
                                         <<"mp_fnd_info", target_date>>, now)
        IN  /\ TBL_FOSS_BCPDATA' = TBL_FOSS_BCPDATA \o final_df
            /\ local_file' = <<ToCsv(final_df)>>
    /\ local_file_path' = "bound"
    /\ pc' = "upload"
    /\ UNCHANGED <<op, target_date, calVars, tblVars, perfVars, remote_file,
                   TBL_EVENT_LOG, TBL_BATCH_PROCESSING_LOG,
                   is_log_event_true, is_log_batch_processing_true, raised,
                   rebalVars, srcVars, inVars, mainVars>>

\* lines 612-633 raise (the query, the insert, to_csv or the commit fails):
\* the transaction rolls back; the file exists only if to_csv had run
MpListStageFails ==
    /\ op = "SEND_MPLIST"
    /\ pc = "start"
    /\ \E at \in {"before_to_csv", "commit"}, now \in Clock,
          raw_df \in fetch_mp_list_data(TBL_RESULT_MPLIST, TBL_FOSS_UNIVERSE,
                                        target_date, "foss") :
        LET final_df == prepare_final_df(preprocess_mp_list_data(raw_df),
                                         <<"mp_fnd_info", target_date>>, now)
        IN  IF at = "commit"
            THEN /\ local_file' = <<ToCsv(final_df)>>
                 /\ local_file_path' = "bound"
            ELSE UNCHANGED <<local_file, local_file_path>>
    /\ pc' = "except"
    /\ UNCHANGED <<op, target_date, calVars, tblVars, perfVars,
                   TBL_FOSS_BCPDATA, remote_file, TBL_EVENT_LOG,
                   TBL_BATCH_PROCESSING_LOG, is_log_event_true,
                   is_log_batch_processing_true, raised, rebalVars, srcVars, inVars, mainVars>>

NextMpList ==
    \/ MpListStage
    \/ MpListStageFails
    \/ Upload
    \/ UploadFails
    \/ LogSuccess
    \/ LogSuccessFails
    \/ Except
    \/ Finally

SpecMpList == InitMpList /\ [][NextMpList]_vars

-----------------------------------------------------------------------------
(* SEND_REPORT: process_report *)

\* str.replace(c, by) for a one-character c
RECURSIVE Replace(_, _, _)
Replace(s, c, by) ==
    IF s = <<>> THEN <<>>
    ELSE (IF s[1] = c THEN by ELSE <<s[1]>>) \o Replace(Tail(s), c, by)

\* clean_string: the four replacements in their order
clean_string(value) ==
    LET v1 == Replace(value, "\"", <<"&", "q", "u", "o", "t", ";">>)
        v2 == Replace(v1, "\r", <<"\n">>)
        v3 == Replace(v2, "\n", <<>>)
    IN  Replace(v3, ";", <<>>)

\* f"{row['trddate']};{performance_t};{performance_c};"
ReportLst(row) ==
    DateText(row.trddate) \o <<";">>
    \o clean_string(row.performance_t) \o <<";">>
    \o clean_string(row.performance_c) \o <<";">>

\* SELECT COUNT(trddate) FROM TBL_FOSS_REPORT WHERE trddate = :target_date
CountReport(report, td) == Cardinality({r \in report : r.trddate = td})

\* the rows of the latest report date on or before target_date, in one of
\* the orders the query may return them
SelectReport(report, td) ==
    Orderings({r \in report :
        /\ r.trddate <= td
        /\ \A q \in report : q.trddate <= td => q.trddate <= r.trddate})

\* the stamps datetime.now() may give the rows built one after the other
RowStamps(n) ==
    {ts \in [1..n -> Clock] :
        \A i \in 1..n, j \in 1..n : i < j => ts[i] <= ts[j]}

\* insert_df: one row per report row, stamped as it is built
ReportInsertDf(df, ts, sSetFile) ==
    [i \in 1..Len(df) |->
        [indate |-> ts[i], send_filename |-> sSetFile, idx |-> i,
         lst |-> ReportLst(df[i])]]

\* candidate report texts: plain, with a quote and a semicolon, with a line
\* break
ReportCandidates ==
    <<[performance_t |-> <<"a">>, performance_c |-> <<"b">>],
      [performance_t |-> <<"q", "\"">>, performance_c |-> <<"c", ";", "d">>],
      [performance_t |-> <<"x", "\r", "\n", "y">>, performance_c |-> <<"e">>],
      [performance_t |-> <<"f">>, performance_c |-> <<>>]>>

\* the report rows R of date td and a report of an earlier date
ReportRows(R, td) ==
    {[trddate |-> td, performance_t |-> ReportCandidates[i].performance_t,
      performance_c |-> ReportCandidates[i].performance_c] : i \in R}
    \cup {[trddate |-> 20240103, performance_t |-> <<"p">>,
           performance_c |-> <<"r">>]}

InitReport ==
    /\ InIdle
    /\ MainIdle
    /\ op = "SEND_REPORT"
    /\ pc = "start"
    /\ target_date = 20240104
    /\ CalIdle
    /\ TblIdle
    /\ PerfIdle
    /\ RunIdle
    /\ RebalIdle
    /\ TBL_FOSS_UNIVERSE = {}
    /\ \E R \in SUBSET (1..Len(ReportCandidates)) :
           /\ Cardinality(R) <= MaxSourceRows
           /\ TBL_FOSS_REPORT = ReportRows(R, target_date)

\* lines 872-940: the transaction block runs to its end and commits; an
\* empty file is written when no report row is dated target_date
ReportStage ==
    /\ op = "SEND_REPORT"
    /\ pc = "start"
    /\ IF CountReport(TBL_FOSS_REPORT, target_date) >= 1
       THEN \E df \in SelectReport(TBL_FOSS_REPORT, target_date) :
            \E ts \in RowStamps(Len(df)) :
              LET insert_df == ReportInsertDf(df, ts,
                                              <<"report", target_date>>)
              IN  /\ TBL_FOSS_BCPDATA' = TBL_FOSS_BCPDATA \o insert_df
                  /\ local_file' = <<LstColumn(insert_df)>>
       ELSE /\ TBL_FOSS_BCPDATA' = TBL_FOSS_BCPDATA
            /\ local_file' = <<<<>>>>
    /\ local_file_path' = "bound"
    /\ pc' = "upload"
    /\ UNCHANGED <<op, target_date, calVars, tblVars, perfVars, remote_file,
                   TBL_EVENT_LOG, TBL_BATCH_PROCESSING_LOG,
                   is_log_event_true, is_log_batch_processing_true, raised,
                   rebalVars, srcVars, inVars, mainVars>>

\* lines 872-940 raise (a query, the insert, the write or the commit
\* fails): the transaction rolls back; the file exists only if it had been
\* written
ReportStageFails ==
    /\ op = "SEND_REPORT"
    /\ pc = "start"
    /\ \E at \in {"before_write", "commit"} :
        IF at = "commit"
        THEN /\ IF CountReport(TBL_FOSS_REPORT, target_date) >= 1
                THEN \E df \in SelectReport(TBL_FOSS_REPORT, target_date) :
                       local_file' = <<[i \in 1..Len(df) |-> ReportLst(df[i])]>>
                ELSE local_file' = <<<<>>>>
             /\ local_file_path' = "bound"
        ELSE UNCHANGED <<local_file, local_file_path>>
    /\ pc' = "except"
    /\ UNCHANGED <<op, target_date, calVars, tblVars, perfVars,
                   TBL_FOSS_BCPDATA, remote_file, TBL_EVENT_LOG,
                   TBL_BATCH_PROCESSING_LOG, is_log_event_true,
                   is_log_batch_processing_true, raised, rebalVars, srcVars, inVars, mainVars>>

NextReport ==
    \/ ReportStage
    \/ ReportStageFails
    \/ Upload
    \/ UploadFails
    \/ LogSuccess
    \/ LogSuccessFails
    \/ Except
    \/ Finally

SpecReport == InitReport /\ [][NextReport]_vars

-----------------------------------------------------------------------------
(* The four outbound operations that stage rows in TBL_FOSS_BCPDATA *)

InitOutbound == InitMpRate \/ InitMpList \/ InitRebal \/ InitReport

NextOutbound ==
    \/ MpRateNotReady
    \/ MpRateStage
    \/ MpRateStageFails
    \/ MpListStage
    \/ MpListStageFails
    \/ RebalStage
    \/ RebalStageFails
    \/ ReportStage
    \/ ReportStageFails
    \/ Upload
    \/ UploadFails
    \/ LogSuccess
    \/ LogSuccessFails
    \/ Except
    \/ Finally

SpecOutbound == InitOutbound /\ [][NextOutbound]_vars

-----------------------------------------------------------------------------
(* process_mp_info_eof, and the five operations that send a file *)

InitMpInfoEof ==
    /\ InIdle
    /\ MainIdle
    /\ op = "SEND_MP_INFO_EOF"
    /\ pc = "start"
    /\ target_date \in {20240104, 20240105}
    /\ CalIdle
    /\ TblIdle
    /\ PerfIdle
    /\ RunIdle
    /\ RebalIdle
    /\ SrcIdle

\* the path is bound, then open(..., "w") creates the empty file
MpInfoEofCreate ==
    /\ op = "SEND_MP_INFO_EOF"
    /\ pc = "start"
    /\ local_file_path' = "bound"
    /\ local_file' = <<<<>>>>
    /\ pc' = "upload"
    /\ UNCHANGED <<op, target_date, calVars, tblVars, perfVars,
                   TBL_FOSS_BCPDATA, remote_file, TBL_EVENT_LOG,
                   TBL_BATCH_PROCESSING_LOG, is_log_event_true,
                   is_log_batch_processing_true, raised, rebalVars, srcVars,
                   inVars, mainVars>>

\* open raises: the path is bound and no file exists
MpInfoEofCreateFails ==
    /\ op = "SEND_MP_INFO_EOF"
    /\ pc = "start"
    /\ local_file_path' = "bound"
    /\ pc' = "except"
    /\ UNCHANGED <<op, target_date, calVars, tblVars, perfVars,
                   TBL_FOSS_BCPDATA, local_file, remote_file, TBL_EVENT_LOG,
                   TBL_BATCH_PROCESSING_LOG, is_log_event_true,
                   is_log_batch_processing_true, raised, rebalVars, srcVars,
                   inVars, mainVars>>

InitSend == InitOutbound \/ InitMpInfoEof

NextSend ==
    \/ MpRateNotReady
    \/ MpRateStage
    \/ MpRateStageFails
    \/ MpListStage
    \/ MpListStageFails
    \/ RebalStage
    \/ RebalStageFails
    \/ ReportStage
    \/ ReportStageFails
    \/ MpInfoEofCreate
    \/ MpInfoEofCreateFails
    \/ Upload
    \/ UploadFails
    \/ LogSuccess
    \/ LogSuccessFails
    \/ Except
    \/ Finally

SpecSend == InitSend /\ [][NextSend]_vars

-----------------------------------------------------------------------------
(* Inbound ingestion: insert_fnd_list_data, insert_customer_account_data,  *)
(* insert_customer_fund_data.  In this part a table is a bag of            *)
(* [trddate, row], row being the tuple of the column values in the order   *)
(* of the dataframe (the integer columns as numbers); regdate is left out. *)
(* Lines end with "\n".                                                    *)

\* csv.reader(StringIO(text), delimiter=";") with the default dialect, one
\* record: its fields and the position after it.  field is the field being
\* read, row the fields read so far.
RECURSIVE CsvRecord(_, _, _, _, _)
CsvRecord(text, i, state, field, row) ==
    IF i > Len(text)
    THEN [row |-> Append(row, field), next |-> i]
    ELSE
      LET c == text[i]
      IN  IF state = "start_field"
          THEN IF c = "\n"
               THEN [row |-> Append(row, <<>>), next |-> i + 1]
               ELSE IF c = "\""
               THEN CsvRecord(text, i + 1, "in_quoted_field", <<>>, row)
               ELSE IF c = ";"
               THEN CsvRecord(text, i + 1, "start_field", <<>>,
                              Append(row, <<>>))
               ELSE CsvRecord(text, i + 1, "in_field", <<c>>, row)
          ELSE IF state = "in_field"
          THEN IF c = "\n"
               THEN [row |-> Append(row, field), next |-> i + 1]
               ELSE IF c = ";"
               THEN CsvRecord(text, i + 1, "start_field", <<>>,
                              Append(row, field))
               ELSE CsvRecord(text, i + 1, "in_field", Append(field, c), row)
          ELSE IF state = "in_quoted_field"
          THEN IF c = "\""
               THEN CsvRecord(text, i + 1, "quote_in_quoted_field", field,
                              row)
               ELSE CsvRecord(text, i + 1, "in_quoted_field",
                              Append(field, c), row)
          ELSE \* quote_in_quoted_field
               IF c = "\""
               THEN CsvRecord(text, i + 1, "in_quoted_field",
                              Append(field, c), row)
               ELSE IF c = ";"
               THEN CsvRecord(text, i + 1, "start_field", <<>>,
                              Append(row, field))
               ELSE IF c = "\n"
               THEN [row |-> Append(row, field), next |-> i + 1]
               ELSE CsvRecord(text, i + 1, "in_field", Append(field, c), row)

\* the rows the reader yields from position i on; an empty line is a row
\* without field
RECURSIVE CsvRows(_, _)
CsvRows(text, i) ==
    IF i > Len(text) THEN <<>>
    ELSE IF text[i] = "\n" THEN <<<<>>>> \o CsvRows(text, i + 1)
    ELSE LET r == CsvRecord(text, i, "start_field", <<>>, <<>>)
         IN  <<r.row>> \o CsvRows(text, r.next)

csv_reader(text) == CsvRows(text, 1)

\* the field count of "if len(row) == ..."
FieldCount(o) ==
    IF o = "RECEIVE_UNIVERSE" THEN 12
    ELSE IF o = "RECEIVE_ACCOUNT" THEN 8
    ELSE 5

\* the positions, among the dataframe columns, of the columns of
\* .astype(int): total_cnt; invest_principal, totalappraisal_price,
\* revenue_price, deposit_price; invest_principal, appraisal_price,
\* revenue_price
IntColumns(o) ==
    IF o = "RECEIVE_UNIVERSE" THEN {11}
    ELSE IF o = "RECEIVE_ACCOUNT" THEN {4, 5, 6, 8}
    ELSE {3, 4, 5}

\* the set unique_rows after the loop over csv_reader: tuple(row[1:]) for
\* the universe file, tuple(row) for the others
unique_rows(text, o) ==
    LET rows == csv_reader(text)
    IN  {IF o = "RECEIVE_UNIVERSE" THEN Tail(rows[k]) ELSE rows[k] :
            k \in {j \in 1..Len(rows) : Len(rows[j]) = FieldCount(o)}}

Whitespace == {" ", "\n", "\t", "\r"}

\* str.strip()
RECURSIVE Strip(_)
Strip(s) ==
    IF s = <<>> THEN s
    ELSE IF s[1] \in Whitespace THEN Strip(Tail(s))
    ELSE IF s[Len(s)] \in Whitespace THEN Strip(SubSeq(s, 1, Len(s) - 1))
    ELSE s

IsDigit(c) == \E k \in 1..10 : DigitChars[k] = c

\* int(s) does not raise: an optional sign, then decimal digits
IsIntText(s) ==
    LET body == IF s # <<>> /\ s[1] \in {"+", "-"} THEN Tail(s) ELSE s
    IN  /\ body # <<>>
        /\ \A k \in 1..Len(body) : IsDigit(body[k])

RECURSIVE DigitsValue(_)
DigitsValue(s) ==
    IF s = <<>> THEN 0
    ELSE 10 * DigitsValue(SubSeq(s, 1, Len(s) - 1))
         + (CHOOSE k \in 0..9 : DigitChars[k + 1] = s[Len(s)])

\* int(s)
IntOfText(s) ==
    IF s[1] = "-" THEN 0 - DigitsValue(Tail(s))
    ELSE IF s[1] = "+" THEN DigitsValue(Tail(s))
    ELSE DigitsValue(s)

\* .astype(int) raises ValueError on some kept row
AstypeRaises(text, o) ==
    \E t \in unique_rows(text, o), k \in IntColumns(o) :
        ~IsIntText(Strip(t[k]))

\* the table row of tuple t: every text column stripped, the integer
\* columns converted, trddate = target_date
InboundRow(t, o, td) ==
    [trddate |-> td,
     row |-> [k \in 1..Len(t) |->
                 IF k \in IntColumns(o) THEN IntOfText(Strip(t[k]))
                 ELSE Strip(t[k])]]

\* faulty variant: tuples that are equal once stripped give one row
final_df_stripped_first(text, o, td) ==
    SetToBag({InboundRow(t, o, td) : t \in unique_rows(text, o)})

\* the rows final_df.to_sql appends: one per tuple of unique_rows
final_df(text, o, td) ==
    LET U   == unique_rows(text, o)
        img == {InboundRow(t, o, td) : t \in U}
    IN  [e \in img |-> Cardinality({t \in U : InboundRow(t, o, td) = e})]

\* the table the operation fills
InboundTable ==
    IF op = "RECEIVE_UNIVERSE" THEN TBL_FOSS_UNIVERSE
    ELSE IF op = "RECEIVE_ACCOUNT" THEN TBL_FOSS_CUSTOMERACCOUNT
    ELSE TBL_FOSS_CUSTOMERFUND

\* faulty variant: the pre-check finds no row
CountOfDateNone(table, td) == 0

\* SELECT COUNT(*) FROM <table> WHERE trddate = :target_date
CountOfDate(table, td) ==
    BagCardinality([e \in {x \in BagToSet(table) : x.trddate = td} |->
                       CopiesIn(e, table)])

InboundOps == {"RECEIVE_UNIVERSE", "RECEIVE_ACCOUNT", "RECEIVE_CUSTMERFND"}

\* "if result > 0: ... return": nothing is read, written or logged
InboundSkip ==
    /\ op \in InboundOps
    /\ pc = "start"
    /\ CountOfDate(InboundTable, target_date) > 0
    /\ pc' = "done"
    /\ UNCHANGED <<op, target_date, calVars, tblVars, perfVars, runVars,
                   rebalVars, srcVars, inVars, mainVars>>

\* the transaction block runs to its end: the rows are appended, both
\* success records are written, the block commits
InboundInsert ==
    /\ op \in InboundOps
    /\ pc = "start"
    /\ CountOfDate(InboundTable, target_date) = 0
    /\ ~AstypeRaises(file_contents, op)
    /\ LET new == InboundTable (+) final_df(file_contents, op, target_date)
       IN  /\ TBL_FOSS_UNIVERSE' =
                  IF op = "RECEIVE_UNIVERSE" THEN new ELSE TBL_FOSS_UNIVERSE
           /\ TBL_FOSS_CUSTOMERACCOUNT' =
                  IF op = "RECEIVE_ACCOUNT" THEN new
                  ELSE TBL_FOSS_CUSTOMERACCOUNT
           /\ TBL_FOSS_CUSTOMERFUND' =
                  IF op = "RECEIVE_CUSTMERFND" THEN new
                  ELSE TBL_FOSS_CUSTOMERFUND
    /\ rows_of_first_success' =
           IF rows_of_first_success = <<>>
           THEN <<final_df(file_contents, op, target_date)>>
           ELSE rows_of_first_success
    /\ TBL_EVENT_LOG' = Append(TBL_EVENT_LOG, "true")
    /\ is_log_event_true' = TRUE
    /\ TBL_BATCH_PROCESSING_LOG' = Append(TBL_BATCH_PROCESSING_LOG, "success")
    /\ is_log_batch_processing_true' = TRUE
    /\ pc' = "done"
    /\ UNCHANGED <<op, target_date, calVars, tblVars, perfVars,
                   TBL_FOSS_BCPDATA, local_file, local_file_path,
                   remote_file, raised, TBL_FOSS_REBAL_CUSTOMER,
                   manual_customer_ids, manual_rebal_yn, forced_rebal_date,
                   final_rebalcus_data, args_manual_customer_ids,
                   TBL_FOSS_REPORT, file_contents, run_count, exception,
                   mainVars>>

\* a statement of the transaction block raises: astype(int) on a value that
\* is no integer, or to_sql, log_event, log_batch_processing or the commit
\* on a database error.  The block rolls back what it has written; the
\* flags keep what the function has set.
InboundFails ==
    /\ op \in InboundOps
    /\ pc = "start"
    /\ CountOfDate(InboundTable, target_date) = 0
    /\ \E at \in {"astype", "to_sql", "log_event", "log_batch_processing",
                  "commit"} :
          /\ (at = "astype") = AstypeRaises(file_contents, op)
          /\ exception' = IF at = "astype" THEN "ValueError"
                           ELSE "DatabaseError"
          /\ is_log_event_true' = (at \in {"log_batch_processing", "commit"})
          /\ is_log_batch_processing_true' = (at = "commit")
    /\ pc' = "except"
    /\ UNCHANGED <<op, target_date, calVars, tblVars, perfVars,
                   TBL_FOSS_BCPDATA, local_file, local_file_path,
                   remote_file, TBL_EVENT_LOG, TBL_BATCH_PROCESSING_LOG,
                   raised, rebalVars, srcVars, file_contents,
                   TBL_FOSS_CUSTOMERFUND, run_count, rows_of_first_success,
                   mainVars>>

\* the except clause: the failure records that the flags ask for, then raise
InboundExcept ==
    /\ op \in InboundOps
    /\ pc = "except"
    /\ TBL_EVENT_LOG' = IF is_log_event_true THEN TBL_EVENT_LOG
                        ELSE Append(TBL_EVENT_LOG, "false")
    /\ TBL_BATCH_PROCESSING_LOG' =
           IF is_log_batch_processing_true THEN TBL_BATCH_PROCESSING_LOG
           ELSE Append(TBL_BATCH_PROCESSING_LOG, "failed")
    /\ raised' = TRUE
    /\ pc' = "done"
    /\ UNCHANGED <<op, target_date, calVars, tblVars, perfVars,
                   TBL_FOSS_BCPDATA, local_file, local_file_path,
                   remote_file, is_log_event_true,
                   is_log_batch_processing_true, rebalVars, srcVars, inVars,
                   mainVars>>

-----------------------------------------------------------------------------
(* Specification SpecInbound: MaxRuns runs of one ingest for one date *)

MaxFileRows == 4
MaxRuns == 3

\* the fields joined by ";" and ended by "\n"
RECURSIVE JoinFields(_)
JoinFields(fs) ==
    IF Len(fs) = 1 THEN fs[1] \o <<"\n">>
    ELSE fs[1] \o <<";">> \o JoinFields(Tail(fs))

\* a line of fnd_list.<date> with 12 fields
FndListLine(first, fund_cd, total_cnt) ==
    JoinFields(<<first, fund_cd, <<"K", "R", "1">>, <<"n", "m">>, <<"s">>,
                 <<"Y">>, <<"A">>, <<"3">>, <<"7", "7">>, <<"c">>,
                 <<"c", "o">>, total_cnt>>)

\* well-formed lines; a line that differs from the first one in its first
\* field only; one that differs in blanks only; a line of 11 fields; a
\* total_cnt that is no integer; a quoted field holding a ';'; an empty line
FndListCandidates ==
    <<FndListLine(<<"0">>, <<"F", "1">>, <<"1", "0">>),
      FndListLine(<<"0">>, <<"F", "2">>, <<"7">>),
      FndListLine(<<"0">>, <<"F", "3">>, <<"5">>),
      FndListLine(<<"9">>, <<"F", "1">>, <<"1", "0">>),
      FndListLine(<<"0">>, <<" ", "F", "1">>, <<"1", "0">>),
      JoinFields(<<<<"0">>, <<"F", "4">>, <<"K", "R", "1">>, <<"n", "m">>,
                   <<"s">>, <<"Y">>, <<"A">>, <<"3">>, <<"7", "7">>, <<"c">>,
                   <<"4">>>>),
      FndListLine(<<"0">>, <<"F", "5">>, <<"x">>),
      FndListLine(<<"0">>, <<"\"", "F", ";", "6", "\"">>, <<"3">>),
      <<"\n">>>>

\* a line of ap_acc_info.<date>
AccInfoLine(customer_id, invest_principal, tail) ==
    JoinFields(<<customer_id, <<"7", "7">>, <<"3">>, invest_principal,
                 <<"1", "2", "0">>, <<"-", "5">>, <<"Y">>>> \o tail)

\* well-formed lines; blanks around an integer; a line of 7 and one of 9
\* fields; an invest_principal that is no integer
AccInfoCandidates ==
    <<AccInfoLine(C10083, <<"1", "0", "0">>, <<<<"0">>>>),
      AccInfoLine(C10096, <<"2", "0", "0">>, <<<<"0">>>>),
      AccInfoLine(C10083, <<" ", "1", "0", "0">>, <<<<"0">>>>),
      AccInfoLine(C100831, <<"3", "0", "0">>, <<>>),
      AccInfoLine(C100831, <<"3", "0", "0">>, <<<<"0">>, <<>>>>),
      AccInfoLine(C10096, <<"1", ".", "5">>, <<<<"0">>>>)>>

\* well-formed lines of ap_fnd_info.<date>; a line of 4 fields; a line
\* ended by ';' (6 fields); an empty invest_principal
FndInfoCandidates ==
    <<JoinFields(<<C10083, <<"F", "1">>, <<"1", "0">>, <<"1", "2">>, <<"2">>>>),
      JoinFields(<<C10096, <<"F", "2">>, <<"2", "0">>, <<"1", "8">>,
                   <<"-", "2">>>>),
      JoinFields(<<C10083, <<"F", "3">>, <<"1", "0">>, <<"1", "2">>>>),
      JoinFields(<<C10083, <<"F", "4">>, <<"1", "0">>, <<"1", "2">>, <<"2">>,
                   <<>>>>),
      JoinFields(<<C10096, <<"F", "5">>, <<>>, <<"1", "2">>, <<"2">>>>)>>

LineCandidates(o) ==
    IF o = "RECEIVE_UNIVERSE" THEN FndListCandidates
    ELSE IF o = "RECEIVE_ACCOUNT" THEN AccInfoCandidates
    ELSE FndInfoCandidates

\* the lines of cands with the indexes K, in order, as one text
RECURSIVE LinesOf(_, _)
LinesOf(cands, K) ==
    IF K = {} THEN <<>>
    ELSE LET k == CHOOSE x \in K : \A y \in K : x <= y
         IN  cands[k] \o LinesOf(cands, K \ {k})

\* the files of an ingest: at most MaxFileRows lines, the last of which may
\* repeat the first; main passes a text only when it is not empty
InboundFiles(o) ==
    LET cands == LineCandidates(o)
    IN  {LinesOf(cands, K) : K \in {S \in SUBSET (1..Len(cands)) :
                                      S # {} /\ Cardinality(S) <= MaxFileRows}}
        \cup
        {LinesOf(cands, K) \o cands[CHOOSE x \in K : \A y \in K : x <= y] :
            K \in {S \in SUBSET (1..Len(cands)) :
                      S # {} /\ Cardinality(S) < MaxFileRows}}

\* the file of a later run: the same one, or the first three lines of the
\* candidates
LaterFiles(o) == {file_contents, LinesOf(LineCandidates(o), {1, 2, 3})}

\* a row of another date that the table holds before the runs
OlderRows(o) ==
    final_df(LinesOf(LineCandidates(o), {1}), o, 20241209)

InitInbound ==
    /\ op \in InboundOps
    /\ pc = "start"
    /\ target_date = 20241210
    /\ CalIdle
    /\ TblIdle
    /\ PerfIdle
    /\ RunIdle
    /\ MainIdle
    /\ TBL_FOSS_REBAL_CUSTOMER = <<>>
    /\ manual_customer_ids = <<>>
    /\ manual_rebal_yn = <<>>
    /\ forced_rebal_date = <<>>
    /\ final_rebalcus_data = <<>>
    /\ args_manual_customer_ids = <<>>
    /\ TBL_FOSS_REPORT = {}
    /\ \E older \in BOOLEAN :
          LET t == IF older THEN OlderRows(op) ELSE EmptyBag
          IN  /\ TBL_FOSS_UNIVERSE =
                     IF op = "RECEIVE_UNIVERSE" THEN t ELSE EmptyBag
              /\ TBL_FOSS_CUSTOMERACCOUNT =
                     IF op = "RECEIVE_ACCOUNT" THEN t ELSE EmptyBag
              /\ TBL_FOSS_CUSTOMERFUND =
                     IF op = "RECEIVE_CUSTMERFND" THEN t ELSE EmptyBag
    /\ file_contents \in InboundFiles(op)
    /\ run_count = 1
    /\ rows_of_first_success = <<>>
    /\ exception = "none"

\* the process is started again for the same date
InboundNextRun ==
    /\ op \in InboundOps
    /\ pc = "done"
    /\ run_count < MaxRuns
    /\ run_count' = run_count + 1
    /\ file_contents' \in LaterFiles(op)
    /\ is_log_event_true' = FALSE
    /\ is_log_batch_processing_true' = FALSE
    /\ raised' = FALSE
    /\ exception' = "none"
    /\ pc' = "start"
    /\ UNCHANGED <<op, target_date, calVars, tblVars, perfVars,
                   TBL_FOSS_BCPDATA, local_file, local_file_path,
                   remote_file, TBL_EVENT_LOG, TBL_BATCH_PROCESSING_LOG,
                   rebalVars, srcVars, TBL_FOSS_CUSTOMERFUND,
                   rows_of_first_success, mainVars>>

NextInbound ==
    \/ InboundSkip
    \/ InboundInsert
    \/ InboundFails
    \/ InboundExcept
    \/ InboundNextRun

SpecInbound == InitInbound /\ [][NextInbound]_vars

-----------------------------------------------------------------------------
(* main(): the connections around one operation.  An operation function is *)
(* taken by its outcome, returning or raising; sftp, transport and the two *)
(* database connections are "unbound" until opened, then "open", then      *)
(* "closed".  exception is the exception main has met, if any.             *)

ProcessTypes ==
    {"DELETE_OLDDATA", "RECEIVE_UNIVERSE", "RECEIVE_ACCOUNT",
     "RECEIVE_CUSTMERFND", "SEND_MPRATE", "SEND_MPLIST", "SEND_REBALCUS",
     "SEND_REPORT", "SEND_MP_INFO_EOF"}

\* a --process_type that names no process
InvalidProcessType == "SEND_NOTHING"

\* the text of a file that was found, whatever it holds
SomeText == <<"x">>

InitMain ==
    /\ op \in ProcessTypes \cup {InvalidProcessType}
    /\ pc = "start"
    /\ target_date = 20241210
    /\ CalIdle
    /\ TblIdle
    /\ PerfIdle
    /\ RunIdle
    /\ RebalIdle
    /\ SrcIdle
    /\ InIdle
    /\ main_pc = "get_sftp_connection"
    /\ sftp = "unbound"
    /\ transport = "unbound"
    /\ connection = "unbound"
    /\ connection_qbt_api = "unbound"
    /\ exit_status = <<>>

\* get_sftp_connection: paramiko.Transport raises before a socket is open;
\* or transport.connect or SFTPClient.from_transport raises, the transport
\* being open and known to nobody; or both objects are returned
GetSftpConnection ==
    /\ main_pc = "get_sftp_connection"
    /\ \/ /\ exception' = "Exception"
          /\ main_pc' = "outer_except"
          /\ UNCHANGED <<sftp, transport>>
       \/ /\ transport' = "open"
          /\ exception' = "Exception"
          /\ main_pc' = "outer_except"
          /\ UNCHANGED sftp
       \/ /\ transport' = "open"
          /\ sftp' = "open"
          /\ main_pc' = "connect"
          /\ UNCHANGED exception
    /\ UNCHANGED <<op, pc, target_date, calVars, tblVars, perfVars, runVars,
                   rebalVars, srcVars, file_contents, TBL_FOSS_CUSTOMERFUND,
                   run_count, rows_of_first_success, connection,
                   connection_qbt_api, exit_status>>

\* get_sqlalchemy_connection twice, then "with engine.connect() as
\* connection": the connection is open, or one of them raises
EngineConnect ==
    /\ main_pc = "connect"
    /\ \/ /\ connection' = "open"
          /\ main_pc' = "chdir"
          /\ UNCHANGED exception
       \/ /\ exception' = "Exception"
          /\ main_pc' = "outer_except"
          /\ UNCHANGED connection
    /\ UNCHANGED <<op, pc, target_date, calVars, tblVars, perfVars, runVars,
                   rebalVars, srcVars, file_contents, TBL_FOSS_CUSTOMERFUND,
                   run_count, rows_of_first_success, sftp, transport,
                   connection_qbt_api, exit_status>>

\* sftp.chdir("foss_data"), inside the with statement and before the inner
\* try: when it raises, the with statement closes the connection
Chdir ==
    /\ main_pc = "chdir"
    /\ \/ /\ main_pc' = "read"
          /\ UNCHANGED <<exception, connection>>
       \/ /\ exception' = "Exception"
          /\ connection' = "closed"
          /\ main_pc' = "outer_except"
    /\ UNCHANGED <<op, pc, target_date, calVars, tblVars, perfVars, runVars,
                   rebalVars, srcVars, file_contents, TBL_FOSS_CUSTOMERFUND,
                   run_count, rows_of_first_success, sftp, transport,
                   connection_qbt_api, exit_status>>

\* sftp.listdir and the reading of the files of target_date: the file of
\* the operation is found or not, or the reading raises
ReadFiles ==
    /\ main_pc = "read"
    /\ \/ /\ file_contents' \in {<<>>, SomeText}
          /\ main_pc' = "operation"
          /\ UNCHANGED exception
       \/ /\ exception' = "Exception"
          /\ main_pc' = "inner_except"
          /\ UNCHANGED file_contents
    /\ UNCHANGED <<op, pc, target_date, calVars, tblVars, perfVars, runVars,
                   rebalVars, srcVars, TBL_FOSS_CUSTOMERFUND, run_count,
                   rows_of_first_success, mainVarsButPc>>

\* the branch of process_type calls no function: an inbound operation
\* whose file was not found, or a process type that names no process
NothingToCall ==
    \/ op \in InboundOps /\ file_contents = <<>>
    \/ op \notin ProcessTypes

\* the branch of process_type: the operation function returns or raises
\* (it re-raises what it has caught)
Operation ==
    /\ main_pc = "operation"
    /\ IF NothingToCall
       THEN /\ main_pc' = "finally"
            /\ UNCHANGED <<raised, exception>>
       ELSE \/ /\ main_pc' = IF op = "RECEIVE_UNIVERSE" THEN "qbt_api"
                             ELSE "finally"
               /\ UNCHANGED <<raised, exception>>
            \/ /\ raised' = TRUE
               /\ exception' = "Exception"
               /\ main_pc' = "inner_except"
    /\ UNCHANGED <<op, pc, target_date, calVars, tblVars, perfVars,
                   TBL_FOSS_BCPDATA, local_file, local_file_path,
                   remote_file, TBL_EVENT_LOG, TBL_BATCH_PROCESSING_LOG,
                   is_log_event_true, is_log_batch_processing_true,
                   rebalVars, srcVars, file_contents, TBL_FOSS_CUSTOMERFUND,
                   run_count, rows_of_first_success, mainVarsButPc>>

\* "with engine_qbt_api.connect() as connection_qbt_api:
\* insert_fnd_list_data_to_qbt_api(...)": connect raises; or the connection
\* is opened and, the function returning or raising, closed
QbtApi ==
    /\ main_pc = "qbt_api"
    /\ \/ /\ exception' = "Exception"
          /\ main_pc' = "inner_except"
          /\ UNCHANGED connection_qbt_api
       \/ /\ connection_qbt_api' = "closed"
          /\ \/ /\ main_pc' = "finally"
                /\ UNCHANGED exception
             \/ /\ exception' = "Exception"
                /\ main_pc' = "inner_except"
    /\ UNCHANGED <<op, pc, target_date, calVars, tblVars, perfVars, runVars,
                   rebalVars, srcVars, file_contents, TBL_FOSS_CUSTOMERFUND,
                   run_count, rows_of_first_success, sftp, transport,
                   connection, exit_status>>

\* the inner except clause: log_message, raise
InnerExcept ==
    /\ main_pc = "inner_except"
    /\ main_pc' = "finally"
    /\ UNCHANGED <<op, pc, target_date, calVars, tblVars, perfVars, runVars,
                   rebalVars, srcVars, inVars, mainVarsButPc>>

\* the finally clause: sftp.close(), transport.close()
MainFinally ==
    /\ main_pc = "finally"
    /\ sftp' = "closed"
    /\ transport' = "closed"
    /\ main_pc' = "with_exit"
    /\ UNCHANGED <<op, pc, target_date, calVars, tblVars, perfVars, runVars,
                   rebalVars, srcVars, inVars, connection,
                   connection_qbt_api, exit_status>>

\* the end of "with engine.connect() as connection": the connection is
\* closed; an exception goes on to the outer except clause
WithExit ==
    /\ main_pc = "with_exit"
    /\ connection' = "closed"
    /\ main_pc' = IF exception = "none" THEN "return" ELSE "outer_except"
    /\ UNCHANGED <<op, pc, target_date, calVars, tblVars, perfVars, runVars,
                   rebalVars, srcVars, inVars, sftp, transport,
                   connection_qbt_api, exit_status>>

\* the outer except clause: log_message, and nothing else
OuterExcept ==
    /\ main_pc = "outer_except"
    /\ main_pc' = "return"
    /\ UNCHANGED <<op, pc, target_date, calVars, tblVars, perfVars, runVars,
                   rebalVars, srcVars, inVars, mainVarsButPc>>

\* main() returns and the interpreter ends: exit status 0
MainReturns ==
    /\ main_pc = "return"
    /\ exit_status' = <<0>>
    /\ main_pc' = "exited"
    /\ UNCHANGED <<op, pc, target_date, calVars, tblVars, perfVars, runVars,
                   rebalVars, srcVars, inVars, sftp, transport, connection,
                   connection_qbt_api>>

NextMain ==
    \/ GetSftpConnection
    \/ EngineConnect
    \/ Chdir
    \/ ReadFiles
    \/ Operation
    \/ QbtApi
    \/ InnerExcept
    \/ MainFinally
    \/ WithExit
    \/ OuterExcept
    \/ MainReturns

SpecMain == InitMain /\ [][NextMain]_vars

-----------------------------------------------------------------------------
(* Claims about the business calendar *)

\* the calendar dates strictly between a and b
DatesBetween(a, b) == {s \in DateRange(a, b) : a < s /\ s < b}

BusinessDatesBetween(a, b, hol) ==
    {s \in DatesBetween(a, b) : IsBusinessDay(Strptime(s), hol)}

\* C1: for a business day d, get_recent_business_date(d) is a business day,
\* is strictly earlier than d, and no business day lies strictly between
\* the result and d.
C1_RecentOfBusinessDay ==
    (pc = "done" /\ op = "recent_business_date"
        /\ IsBusinessDay(Strptime(target_date), kr_holidays))
    => /\ IsDate(sFndDate)
       /\ IsBusinessDay(Strptime(sFndDate), kr_holidays)
       /\ sFndDate < target_date
       /\ BusinessDatesBetween(sFndDate, target_date, kr_holidays) = {}

\* a business day whose previous business day lies beyond a weekend and a
\* holiday, in the previous year
C1_Witness ==
    /\ pc = "done" /\ op = "recent_business_date"
    /\ target_date = 20240102
    /\ kr_holidays = {20231229, 20240101}
    /\ sFndDate = 20231228

\* C2: for a non-business day d, get_recent_business_date(d) is a business
\* day and exactly one business day lies strictly between the result and d.
C2_RecentOfNonBusinessDay ==
    (pc = "done" /\ op = "recent_business_date"
        /\ ~IsBusinessDay(Strptime(target_date), kr_holidays))
    => /\ IsDate(sFndDate)
       /\ IsBusinessDay(Strptime(sFndDate), kr_holidays)
       /\ sFndDate < target_date
       /\ Cardinality(BusinessDatesBetween(sFndDate, target_date,
                                           kr_holidays)) = 1

\* a holiday inside a run of holidays joined by a weekend
C2_Witness ==
    /\ pc = "done" /\ op = "recent_business_date"
    /\ target_date = 20240101
    /\ kr_holidays = {20231229, 20240101, 20240102}
    /\ sFndDate = 20231227

\* D is a trading day of the table and the n-th one of its month
IsNthTradingDayOfMonth(tbl, D, n) ==
    /\ \E r \in tbl : r.trddate = D /\ r.holiday_yn = "N"
    /\ Cardinality({q \in tbl : /\ q.holiday_yn = "N"
                                /\ Left6(q.trddate) = Left6(D)
                                /\ q.trddate <= D}) = n

QualifyingDates(tbl, td, n) ==
    {r.trddate : r \in {q \in tbl : /\ q.trddate >= td
                                    /\ Substring5_2(q.trddate) \in {1, 4, 7, 10}
                                    /\ IsNthTradingDayOfMonth(tbl, q.trddate, n)}}

\* C3: get_next_rebalancing_date(target_date, n) is the earliest date
\* D >= target_date in January, April, July or October that is a trading
\* day of the table and the n-th trading day of its month (nothing when no
\* such date is in the table); with no holiday in January 2024 and n = 3,
\* the target 2024-01-01 gives 2024-01-03.
C3_NextRebalancingDate ==
    (pc = "done" /\ op = "next_rebalancing_date")
    => LET Q == QualifyingDates(TBL_HOLIDAY, target_date, i_opent_day)
       IN  /\ Q = {} => next_rebal_date = NoDate
           /\ Q # {} => /\ next_rebal_date \in Q
                        /\ \A D \in Q : next_rebal_date <= D
           /\ (/\ target_date = 20240101
               /\ i_opent_day = 3
               /\ \A r \in TBL_HOLIDAY :
                      (r.trddate \in {20240101, 20240102, 20240103})
                          => r.holiday_yn = "N"
               /\ \E r \in TBL_HOLIDAY : r.trddate = 20240103)
              => next_rebal_date = 20240103

\* a target date after the 3rd trading day of January resolves to the 3rd
\* trading day of April
C3_Witness ==
    /\ pc = "done" /\ op = "next_rebalancing_date"
    /\ i_opent_day = 3
    /\ target_date = 20240104
    /\ \A r \in TBL_HOLIDAY : r.trddate \in {20240101, 20240401}
                                  => r.holiday_yn = "N"
    /\ \E r \in TBL_HOLIDAY : r.trddate = 20240403 /\ r.holiday_yn = "N"
    /\ next_rebal_date = 20240403

-----------------------------------------------------------------------------
(* Claims about the return aggregation (SEND_MPRATE) *)

\* the window of `term` ending at base date F, if the term is kept
WindowsOf(F, term) ==
    {w \in {ValidTerms(F)[i] : i \in 1..Len(ValidTerms(F))} : w.term = term}

\* the return observations of the portfolios of (risk_grade, prd_gb) that
\* fall in the window of `term`
GroupObservations(term, risk_grade, prd_gb) ==
    {r \in TBL_RESULT_RETURN :
        /\ r.auth_id = "foss"
        /\ \E m \in TBL_RESULT_MPLIST :
               /\ m.auth_id = "foss"
               /\ m.port_cd = r.port_cd
               /\ m.port_cd[Len(m.port_cd)] = risk_grade
               /\ m.prd_gb = prd_gb
        /\ \E w \in WindowsOf(sFndDate, term) :
               w.start_dt <= r.trddate /\ r.trddate <= w.end_dt}

\* the product of (1 + rtn_1d) over the observations R, as a fraction
RECURSIVE Compounded(_)
Compounded(R) ==
    IF R = {} THEN [n |-> 1, d |-> 1]
    ELSE LET r == CHOOSE x \in R : TRUE
             c == Compounded(R \ {r})
         IN  [n |-> c.n * (r.rtn_1d.d + r.rtn_1d.n), d |-> c.d * r.rtn_1d.d]

\* ((product) - 1) * 100, rounded to two decimals, in hundredths
CompoundedReturnPct(R) ==
    LET c == Compounded(R)
        x == Times100([n |-> c.n - c.d, d |-> c.d])
    IN  Round2(x)

TermNames == {"1d", "1m", "3m", "6m", "1y", "all"}
RiskGrades == {"1", "2", "3", "4", "5"}
ProductGroups == {"f12", "f11"}

MpRateStaged == op = "SEND_MPRATE" /\ local_file_path = "bound"

\* C4: for each (window, risk_grade, product_group) group that has an
\* observation, calculate_performance yields one row whose total_rt is
\* ((product of (1 + rtn_1d) over the group's daily returns) - 1) * 100
\* rounded to 2 decimals; a group without observation has no row.
C4_CompoundedReturn ==
    MpRateStaged
    => \A term \in TermNames, g \in RiskGrades, pg \in ProductGroups :
         LET R    == GroupObservations(term, g, pg)
             rows == {r \in TMP_PERFORMANCE : /\ r.term = term
                                              /\ r.risk_grade = g
                                              /\ r.prd_gb = pg}
         IN  IF R = {} THEN rows = {}
             ELSE rows = {[auth_id |-> "foss", term |-> term,
                           risk_grade |-> g, prd_gb |-> pg,
                           total_rt |-> CompoundedReturnPct(R)]}

\* three observations 0.01, -0.02, 0.03 in the since-inception window of
\* one portfolio: 1.019494 gives 1.95 after rounding
C4_Witness ==
    /\ MpRateStaged
    /\ {r.rtn_1d : r \in GroupObservations("all", "2", "f11")}
           = {[n |-> 1, d |-> 100], [n |-> -2, d |-> 100], [n |-> 3, d |-> 100]}
    /\ \E r \in TMP_PERFORMANCE :
           /\ r.term = "all" /\ r.risk_grade = "2" /\ r.prd_gb = "f11"
           /\ r.total_rt = 195

\* the portfolios observed on base date F, and those of the latest batch
PortfoliosObservedOn(F) ==
    {r.port_cd : r \in {q \in TBL_RESULT_RETURN :
                            q.auth_id = "foss" /\ q.trddate = F}}

LatestBatchPortfolios ==
    {r.port_cd : r \in {q \in TBL_RESULT_MPLIST :
        /\ q.auth_id = "foss"
        /\ \A o \in TBL_RESULT_MPLIST :
               o.auth_id = "foss" => o.rebal_date <= q.rebal_date}}

NotReadyCase ==
    /\ op = "SEND_MPRATE"
    /\ pc # "start"
    /\ Cardinality(PortfoliosObservedOn(sFndDate))
           # Cardinality(LatestBatchPortfolios)

\* C8: when the number of portfolios observed on base date F differs from
\* the number of portfolios of the latest rebalancing batch, the run ends
\* without staging a row, uploading a file, leaving a local file, raising
\* or writing an audit record.
C8_NotReadyEndsQuietly ==
    NotReadyCase
    => /\ pc \in {"finally", "done"}
       /\ TBL_FOSS_BCPDATA = <<>>
       /\ remote_file = <<>>
       /\ local_file = <<>>
       /\ ~raised
       /\ TBL_EVENT_LOG = <<>>
       /\ TBL_BATCH_PROCESSING_LOG = <<>>

\* a run that stopped at the guard and is over
C8_Witness ==
    /\ NotReadyCase
    /\ pc = "done"
    /\ PortfoliosObservedOn(sFndDate) = {<<"B", "1">>}
    /\ LatestBatchPortfolios = {<<"A", "1">>, <<"B", "1">>}

\* the portfolios of (risk_grade, prd_gb) with an observation in the window
GroupPortfolios(term, risk_grade, prd_gb) ==
    {r.port_cd : r \in GroupObservations(term, risk_grade, prd_gb)}

\* C9: when several portfolio codes map to one (risk_grade, product_group),
\* each window has one performance row per distinct portfolio_code (the
\* returns of different portfolios are not compounded into one row).
C9_OneRowPerPortfolio ==
    MpRateStaged
    => \A term \in TermNames, g \in RiskGrades, pg \in ProductGroups :
         Cardinality({r \in TMP_PERFORMANCE : /\ r.term = term
                                              /\ r.risk_grade = g
                                              /\ r.prd_gb = pg})
             = Cardinality(GroupPortfolios(term, g, pg))

\* the lines of the mp_info file written by to_csv
MpInfoLines == local_file[1]

\* the lines of the pair (risk_grade, prd_gb)
LinesOfPair(g, pg) ==
    {i \in 1..Len(MpInfoLines) :
        LET f == Split(MpInfoLines[i], ";")
        IN  Len(f) >= 3 /\ f[2] = <<g>> /\ f[3] = ProductCode(pg)}

\* the field of an mp_info line that holds the return of `term`
FieldOfTerm(term) ==
    CASE term = "1d" -> 4 [] term = "3m" -> 5 [] term = "6m" -> 6
      [] term = "1y" -> 7 [] term = "all" -> 8 [] term = "1m" -> 11

HasRow(term, g, pg) ==
    \E r \in TMP_PERFORMANCE :
        r.term = term /\ r.risk_grade = g /\ r.prd_gb = pg

\* C10: every (risk_grade, product_group) with a 1d row yields exactly one
\* mp_info line, and a window without a row for the pair is an empty field
\* of that line.
C10_MissingWindowIsEmpty ==
    (op = "SEND_MPRATE" /\ local_file # <<>>)
    => \A g \in RiskGrades, pg \in ProductGroups :
         HasRow("1d", g, pg)
         => /\ Cardinality(LinesOfPair(g, pg)) = 1
            /\ \A i \in LinesOfPair(g, pg), term \in TermNames \ {"1d"} :
                   ~HasRow(term, g, pg)
                   => Split(MpInfoLines[i], ";")[FieldOfTerm(term)] = <<>>

\* the number written with the decimal digits s
RECURSIVE ParseNat(_)
ParseNat(s) ==
    IF s = <<>> THEN 0
    ELSE ParseNat(SubSeq(s, 1, Len(s) - 1)) * 10 + (CharRank(s[Len(s)]) - 1)

\* float(text) in hundredths: "nan", or digits '.' one or two digits with
\* an optional sign
ParseFloat(t) ==
    IF t = <<"n", "a", "n">> THEN NaN
    ELSE LET neg   == t[1] = "-"
             parts == Split(IF neg THEN Tail(t) ELSE t, ".")
             frac  == IF Len(parts[2]) = 1 THEN ParseNat(parts[2]) * 10
                      ELSE ParseNat(parts[2])
             h     == ParseNat(parts[1]) * 100 + frac
         IN  <<IF neg THEN 0 - h ELSE h>>

\* the total_rt of the pair in the window of `term`, NaN without a row
ValueOfTerm(term, g, pg) ==
    IF HasRow(term, g, pg)
    THEN <<(CHOOSE r \in TMP_PERFORMANCE :
               r.term = term /\ r.risk_grade = g /\ r.prd_gb = pg).total_rt>>
    ELSE NaN

\* C12: every mp_info line is eleven fields each followed by ";": the base
\* date, the risk grade, 77 for f12 or 61 for f11, the 1d, 3m, 6m, 1y and
\* all returns, the expected return, the volatility and last the 1m
\* return; the fields split on ";" read back as the values of the pair
C12_MpInfoLineRoundTrip ==
    (op = "SEND_MPRATE" /\ local_file # <<>>)
    => \A i \in 1..Len(MpInfoLines) :
         LET f == Split(MpInfoLines[i], ";")
         IN  /\ Len(f) = 12
             /\ f[12] = <<>>
             /\ f[1] = DateText(sFndDate)
             /\ \E g \in RiskGrades, pg \in ProductGroups :
                    /\ HasRow("1d", g, pg)
                    /\ f[2] = <<g>>
                    /\ f[3] = IF pg = "f12" THEN <<"7", "7">>
                                             ELSE <<"6", "1">>
                    /\ ParseFloat(f[4]) = ValueOfTerm("1d", g, pg)
                    /\ ParseFloat(f[5]) = ValueOfTerm("3m", g, pg)
                    /\ ParseFloat(f[6]) = ValueOfTerm("6m", g, pg)
                    /\ ParseFloat(f[7]) = ValueOfTerm("1y", g, pg)
                    /\ ParseFloat(f[8]) = ValueOfTerm("all", g, pg)
                    /\ f[9] = expected_return_map(g, pg)
                    /\ f[10] = volatility_map(g, pg)
                    /\ ParseFloat(f[11]) = ValueOfTerm("1m", g, pg)

\* a line of a general (f11) pair and one of a pension (f12) pair, the
\* second with different 1d, 1m and 3m returns, one of them negative
C12_Witness ==
    /\ op = "SEND_MPRATE" /\ local_file # <<>>
    /\ \E i \in 1..Len(MpInfoLines) :
           Split(MpInfoLines[i], ";")[3] = <<"6", "1">>
    /\ \E i \in 1..Len(MpInfoLines) :
           LET f == Split(MpInfoLines[i], ";")
           IN  /\ f[3] = <<"7", "7">>
               /\ {f[5], f[8], f[11]} \cap {<<"n", "a", "n">>} = {}
               /\ f[11] # f[5] /\ f[11] # f[4]
               /\ \E k \in {4, 5, 8, 11} : f[k][1] = "-"

\* the product group and risk grade written in an mp_info line
PairOfLine(line) ==
    LET f == Split(line, ";")
    IN  [prd_gb |-> IF f[3] = <<"7", "7">> THEN "f12" ELSE "f11",
         risk_grade |-> f[2][1]]

\* (product_group, risk_grade) of p is not after that of q
PairNotAfter(p, q) ==
    \/ p.prd_gb = "f11" /\ q.prd_gb = "f12"
    \/ /\ p.prd_gb = q.prd_gb
       /\ ParseNat(<<p.risk_grade>>) <= ParseNat(<<q.risk_grade>>)

\* C13: the mp_info rows staged by a run are in ascending order of
\* (product_group, risk_grade) and the k-th of them has idx = k
C13_SortedThenIndexed ==
    (op = "SEND_MPRATE" /\ TBL_FOSS_BCPDATA # <<>>)
    => /\ \A k \in 1..Len(TBL_FOSS_BCPDATA) : TBL_FOSS_BCPDATA[k].idx = k
       /\ \A k \in 1..Len(TBL_FOSS_BCPDATA), j \in 1..Len(TBL_FOSS_BCPDATA) :
              k < j => PairNotAfter(PairOfLine(TBL_FOSS_BCPDATA[k].lst),
                                    PairOfLine(TBL_FOSS_BCPDATA[j].lst))

\* a run whose first row is the general pair of grade 2 and whose second
\* row is the pension pair of grade 1
C13_Witness ==
    /\ op = "SEND_MPRATE"
    /\ Len(TBL_FOSS_BCPDATA) = 2
    /\ PairOfLine(TBL_FOSS_BCPDATA[1].lst)
           = [prd_gb |-> "f11", risk_grade |-> "2"]
    /\ PairOfLine(TBL_FOSS_BCPDATA[2].lst)
           = [prd_gb |-> "f12", risk_grade |-> "1"]
    /\ TBL_FOSS_BCPDATA[2].idx = 2

-----------------------------------------------------------------------------
(* Claims about SEND_REBALCUS *)

\* the ap_reval_yn file has been uploaded (the transaction is committed)
RebalUploaded == op = "SEND_REBALCUS" /\ remote_file # <<>>

RebalLines == remote_file[1]

\* the account rows of target_date in investment group g
AccountRowsOf(g) ==
    {r \in TBL_FOSS_CUSTOMERACCOUNT :
        r.trddate = target_date /\ r.investgb = g}

SignalRows == AccountRowsOf("77") \cup AccountRowsOf("61")

\* the line of account row r: pension lines first, each group by customer id
LineIndex(r) ==
    (IF r.investgb = "61" THEN Cardinality(AccountRowsOf("77")) ELSE 0)
    + Cardinality({q \in AccountRowsOf(r.investgb) :
                      TextLeq(q.customer_id, r.customer_id)})

ProductGroupOf(investgb) == IF investgb = "77" THEN "f12" ELSE "f11"

\* a rebalance event of product group g is recorded on target_date
RebalanceEventToday(g) ==
    \E e \in TBL_RESULT_MPLIST :
        e.auth_id = "foss" /\ e.prd_gb = g /\ e.rebal_date = target_date

ExpectedFlag(r) ==
    IF /\ RebalanceEventToday(ProductGroupOf(r.investgb))
       /\ r.order_status \in {"Y", "Y1", "Y3"}
    THEN "Y" ELSE "N"

ManualActive ==
    manual_customer_ids # <<>> /\ manual_rebal_yn # <<>>
    /\ forced_rebal_date # <<>>

ListedCustomers ==
    IF ManualActive
    THEN {manual_customer_ids[1][k] : k \in 1..Len(manual_customer_ids[1])}
    ELSE {}

\* C5: for every account row of target_date in group 77 (f12) or 61 (f11)
\* whose customer is not manually overridden, the flag of its uploaded line
\* is "Y" iff a rebalance event of its product group is dated target_date
\* and its order_status is Y, Y1 or Y3, and "N" otherwise
C5_RebalanceFlag ==
    (RebalUploaded /\ next_rebal_date # NoDate)
    => \A r \in SignalRows :
           r.customer_id \notin ListedCustomers
           => LET f == Split(RebalLines[LineIndex(r)], ";")
              IN  /\ f[1] = r.customer_id
                  /\ f[2] = <<ExpectedFlag(r)>>

\* a run where one customer gets "Y" and a customer of the other group,
\* whose order_status would qualify, gets "N" because only the first
\* group rebalanced
C5_Witness ==
    /\ RebalUploaded
    /\ next_rebal_date # NoDate
    /\ \E r \in SignalRows, q \in SignalRows :
           /\ r.customer_id \notin ListedCustomers
           /\ q.customer_id \notin ListedCustomers
           /\ q.investgb # r.investgb
           /\ q.order_status \in {"Y", "Y1", "Y3"}
           /\ Split(RebalLines[LineIndex(r)], ";")[2] = <<"Y">>
           /\ Split(RebalLines[LineIndex(q)], ";")[2] = <<"N">>

\* the signal computed for account row r
ComputedSignal(r) ==
    r.customer_id \o <<";">> \o <<ExpectedFlag(r)>> \o <<";">>
    \o DateText(next_rebal_date) \o <<";">>

\* a is a proper prefix of b
ProperPrefix(a, b) == Len(a) < Len(b) /\ SubSeq(b, 1, Len(a)) = a

\* the rows this run staged in TBL_FOSS_BCPDATA
StagedRows ==
    SubSeq(TBL_FOSS_BCPDATA, Len(PriorBcpdata(target_date)) + 1,
           Len(TBL_FOSS_BCPDATA))

\* C6: after a manual override of customer a, every customer b that is not
\* listed and whose id has a as a proper prefix keeps its computed signal,
\* in the uploaded file and in the row staged in TBL_FOSS_BCPDATA
C6_OverrideLeavesLongerIdsAlone ==
    (RebalUploaded /\ ManualActive)
    => \A a \in ListedCustomers, b \in SignalRows :
           (ProperPrefix(a, b.customer_id)
            /\ b.customer_id \notin ListedCustomers)
           => /\ RebalLines[LineIndex(b)] = ComputedSignal(b)
              /\ StagedRows[LineIndex(b)].lst = ComputedSignal(b)

\* the line forced for a listed customer
ForcedLine(customer_id) ==
    customer_id \o <<";">> \o manual_rebal_yn[1] \o <<";">>
    \o forced_rebal_date[1] \o <<";">>

\* the audit rows of the listed customers, in list order
OverrideAuditRows ==
    [k \in 1..Len(manual_customer_ids[1]) |->
        [rebaldate |-> forced_rebal_date[1],
         customer_id |-> manual_customer_ids[1][k],
         regdate |-> target_date,
         rebal_yn |-> manual_rebal_yn[1]]]

\* C7: after a run with the manual override active, the uploaded line of
\* every account row of a listed customer is exactly
\* "customer_id;forced_flag;forced_date;", and TBL_FOSS_REBAL_CUSTOMER is
\* its earlier content followed by one row (forced_date, customer_id,
\* target_date, forced_flag) per listed customer; in every state the
\* earlier audit rows are still there, unchanged
C7_OverrideLineAndAudit ==
    /\ SubSeq(TBL_FOSS_REBAL_CUSTOMER, 1, Len(PriorRebalCustomer))
           = PriorRebalCustomer
    /\ (RebalUploaded /\ ManualActive)
       => /\ \A r \in SignalRows :
                 r.customer_id \in ListedCustomers
                 => RebalLines[LineIndex(r)] = ForcedLine(r.customer_id)
          /\ TBL_FOSS_REBAL_CUSTOMER = PriorRebalCustomer \o OverrideAuditRows

\* an override of two customers, one of them with an account row whose
\* computed flag differs from the forced one
C7_Witness ==
    /\ RebalUploaded
    /\ ManualActive
    /\ Len(manual_customer_ids[1]) = 2
    /\ Len(TBL_FOSS_REBAL_CUSTOMER) = Len(PriorRebalCustomer) + 2
    /\ \E r \in SignalRows :
           /\ r.customer_id \in ListedCustomers
           /\ <<ExpectedFlag(r)>> # manual_rebal_yn[1]
           /\ RebalLines[LineIndex(r)] = ForcedLine(r.customer_id)

-----------------------------------------------------------------------------
(* Claims about the return windows *)

\* the date k months before F: the same day of the month, or the last day
\* of that month when it is shorter
MonthsBefore(F, k) ==
    LET months == (F \div 10000) * 12 + ((F \div 100) % 100) - 1 - k
        y == months \div 12
        m == (months % 12) + 1
        last == DaysInMonth(y, m)
        d == IF F % 100 > last THEN last ELSE F % 100
    IN  y * 10000 + m * 100 + d

MonthsOfTerm(term) ==
    IF term = "1m" THEN 1 ELSE IF term = "3m" THEN 3
    ELSE IF term = "6m" THEN 6 ELSE 12

\* the first date of the window of `term` ending at F
StartOfWindow(term, F) ==
    IF term = "1d" THEN F
    ELSE IF term = "all" THEN 20181203
    ELSE Strftime(PlusOneDay(Strptime(MonthsBefore(F, MonthsOfTerm(term)))))

WindowKept(term, F) == term = "all" \/ StartOfWindow(term, F) >= 20181204

\* C11: every row of get_tmp_return is an observation inside its window,
\* the window of each term ends at the base date F and starts at F (1d),
\* at F - k months + 1 day (1m, 3m, 6m, 1y) or at 20181203 (all); a
\* non-"all" window is kept iff its start is >= 20181204, "all" always,
\* and a kept window holds exactly the observations between its start and F
C11_ReturnWindows ==
    (op = "get_tmp_return" /\ pc = "done")
    => /\ \A x \in TMP_RETURN :
              /\ x.term \in {"1d", "1m", "3m", "6m", "1y", "all"}
              /\ x.start_dt = StartOfWindow(x.term, sFndDate)
              /\ x.end_dt = sFndDate
              /\ [auth_id |-> x.auth_id, port_cd |-> x.port_cd,
                  trddate |-> x.trddate, rtn_1d |-> x.rtn_1d]
                     \in TBL_RESULT_RETURN
       /\ \A term \in {"1d", "1m", "3m", "6m", "1y", "all"},
             r \in TBL_RESULT_RETURN :
              (\E x \in TMP_RETURN : /\ x.term = term
                                      /\ x.port_cd = r.port_cd
                                      /\ x.trddate = r.trddate)
              <=> /\ WindowKept(term, sFndDate)
                  /\ StartOfWindow(term, sFndDate) <= r.trddate
                  /\ r.trddate <= sFndDate

\* a base date whose 1m window starts exactly on the floor and is kept,
\* whose 3m window starts before it and is dropped, and whose "all" window
\* holds the observation of 20181203
C11_Witness ==
    /\ op = "get_tmp_return" /\ pc = "done"
    /\ \E x \in TMP_RETURN : /\ x.term = "1m"
                             /\ x.start_dt = 20181204
                             /\ x.trddate = 20181204
    /\ \E x \in TMP_RETURN : x.term = "all" /\ x.trddate = 20181203
    /\ ~ \E x \in TMP_RETURN : x.term = "3m"
    /\ \E r \in TBL_RESULT_RETURN : r.trddate > sFndDate

\* the customer ids written in the uploaded lines i..j
CustomersOfLines(i, j) ==
    {Split(RebalLines[k], ";")[1] : k \in i..j}

\* C14: the uploaded ap_reval_yn file holds one line per pension (77)
\* account row followed by one line per general (61) account row, and the
\* k-th row staged by the run has idx = k over the whole concatenation
C14_PensionThenGeneral ==
    RebalUploaded
    => LET np == Cardinality(AccountRowsOf("77"))
           ng == Cardinality(AccountRowsOf("61"))
       IN  /\ Len(RebalLines) = np + ng
           /\ Len(StagedRows) = np + ng
           /\ \A k \in 1..Len(StagedRows) : StagedRows[k].idx = k
           /\ next_rebal_date # NoDate
              => /\ CustomersOfLines(1, np)
                        = {r.customer_id : r \in AccountRowsOf("77")}
                 /\ CustomersOfLines(np + 1, np + ng)
                        = {r.customer_id : r \in AccountRowsOf("61")}

\* a run with a pension row and a general row, the general customer first
\* in customer id order
C14_Witness ==
    /\ RebalUploaded
    /\ next_rebal_date # NoDate
    /\ Len(StagedRows) = 2
    /\ \E p \in AccountRowsOf("77"), g \in AccountRowsOf("61") :
           /\ p.customer_id # g.customer_id
           /\ TextLeq(g.customer_id, p.customer_id)
           /\ Split(RebalLines[1], ";")[1] = p.customer_id
           /\ Split(RebalLines[2], ";")[1] = g.customer_id
    /\ StagedRows[2].idx = 2

-----------------------------------------------------------------------------
(* Claims about all outbound operations *)

\* the transaction of the run is committed and its file is on disk
RunCommitted == pc \in {"upload", "log_success"}

\* the rows TBL_FOSS_BCPDATA held before the run
RowsBeforeRun ==
    IF op = "SEND_REBALCUS" THEN PriorBcpdata(target_date) ELSE <<>>

\* the rows the run has staged
RunRows ==
    SubSeq(TBL_FOSS_BCPDATA, Len(RowsBeforeRun) + 1, Len(TBL_FOSS_BCPDATA))

\* s with every doubled double quote made single
RECURSIVE SingleQuotes(_)
SingleQuotes(s) ==
    IF Len(s) < 2 THEN s
    ELSE IF s[1] = "\"" /\ s[2] = "\""
         THEN <<"\"">> \o SingleQuotes(SubSeq(s, 3, Len(s)))
         ELSE <<s[1]>> \o SingleQuotes(Tail(s))

\* the value a csv reader gives for a line that holds one field
CsvField(line) ==
    IF Len(line) >= 2 /\ line[1] = "\"" /\ line[Len(line)] = "\""
    THEN SingleQuotes(SubSeq(line, 2, Len(line) - 1))
    ELSE line

\* the text of a staged lst, empty for NULL
TextOf(lst) == IF lst = NullText THEN <<>> ELSE lst

C16_OneIndatePerRun ==
    RunCommitted
    => \A i \in 1..Len(RunRows), j \in 1..Len(RunRows) :
           RunRows[i].indate = RunRows[j].indate

-----------------------------------------------------------------------------
(* Claims about the command line of SEND_REBALCUS *)

\* the comma-separated items of --manual_customer_ids
ArgumentItems == Split(args_manual_customer_ids[1], ",")

ArgumentCustomers == {ArgumentItems[k] : k \in 1..Len(ArgumentItems)}

\* C17: after a run given --manual_customer_ids as a comma-separated
\* list, with the flag and the date, the line of every customer named by
\* an item is the forced line, every other line is the computed signal,
\* and the audit table has gained one row per item
C17_CommaSeparatedIds ==
    (RebalUploaded /\ args_manual_customer_ids # <<>> /\ ManualActive)
    => /\ \A r \in SignalRows :
              RebalLines[LineIndex(r)] =
                  IF r.customer_id \in ArgumentCustomers
                  THEN ForcedLine(r.customer_id)
                  ELSE ComputedSignal(r)
       /\ TBL_FOSS_REBAL_CUSTOMER =
              PriorRebalCustomer \o
              [k \in 1..Len(ArgumentItems) |->
                  [rebaldate |-> forced_rebal_date[1],
                   customer_id |-> ArgumentItems[k],
                   regdate |-> target_date,
                   rebal_yn |-> manual_rebal_yn[1]]]

\* the calendar of the run holds no date for the next-rebalance lookup
NoCoverage == get_next_rebalancing_date(TBL_HOLIDAY, target_date, 3) = NoDate

\* C18: when the calendar has no coverage, a SEND_REBALCUS run that has
\* left its transaction block has staged no row and uploads no file, and it
\* ends raised
C18_NoCoverageIsFatal ==
    (op = "SEND_REBALCUS" /\ pc # "start" /\ NoCoverage)
    => /\ StagedRows = <<>>
       /\ remote_file = <<>>
       /\ pc = "done" => raised

-----------------------------------------------------------------------------
(* Claims about the compounding example *)

\* the daily returns 0.01, -0.02 and 0.03
ExampleReturns ==
    {[n |-> 1, d |-> 100], [n |-> -2, d |-> 100], [n |-> 3, d |-> 100]}

\* the observations of the group in the window are three, with the returns
\* of the example
ExampleWindow(term, risk_grade, prd_gb) ==
    LET R == GroupObservations(term, risk_grade, prd_gb)
    IN  /\ Cardinality(R) = 3
        /\ {r.rtn_1d : r \in R} = ExampleReturns

\* the total_rt values calculate_performance gave the group, in hundredths
TotalRtOf(term, risk_grade, prd_gb) ==
    {r.total_rt : r \in {q \in TMP_PERFORMANCE : /\ q.term = term
                                                 /\ q.risk_grade = risk_grade
                                                 /\ q.prd_gb = prd_gb}}

\* C19 (amended): for the daily returns 0.01, -0.02, 0.03 in one window,
\* calculate_performance gives ((1.01 * 0.98 * 1.03) - 1) * 100 = 1.9494,
\* rounded to 2 decimals 1.95
C19_CompoundedExample ==
    MpRateStaged
    => \A term \in TermNames, g \in RiskGrades, pg \in ProductGroups :
           ExampleWindow(term, g, pg) => TotalRtOf(term, g, pg) = {195}

\* C19 as stated: the rounded value of the example is 1.89
C19_CompoundedExampleAsStated ==
    MpRateStaged
    => \A term \in TermNames, g \in RiskGrades, pg \in ProductGroups :
           ExampleWindow(term, g, pg) => TotalRtOf(term, g, pg) = {189}

\* a staged run with the three returns of the example in the one-year
\* window of a pension group
C19_Witness ==
    /\ MpRateStaged
    /\ \E g \in RiskGrades :
           /\ ExampleWindow("1y", g, "f11")
           /\ TotalRtOf("1y", g, "f11") # {}

-----------------------------------------------------------------------------
(* Claims about the commit and the upload *)

\* the step leaves the transaction block by its commit
CommitStep == pc = "start" /\ pc' = "upload"

\* the step leaves the transaction block by an exception
FailureBeforeCommit == pc = "start" /\ pc' = "except"

\* the step is the failure of sftp_client.put
UploadFailure == pc = "upload" /\ pc' = "except"

\* C20: in every outbound operation the rows of a run appear in
\* TBL_FOSS_BCPDATA only by the commit, at which the local file is written
\* with one line per row and nothing is uploaded yet; the upload is a later
\* step; a failed upload leaves the staged rows in place; a failure before
\* the commit leaves TBL_FOSS_BCPDATA as it was, and no upload follows it
C20_CommitThenUpload ==
    [][/\ CommitStep
          => /\ local_file' # <<>>
             /\ Len(TBL_FOSS_BCPDATA')
                    = Len(TBL_FOSS_BCPDATA) + Len(local_file'[1])
             /\ SubSeq(TBL_FOSS_BCPDATA', 1, Len(TBL_FOSS_BCPDATA))
                    = TBL_FOSS_BCPDATA
             /\ remote_file' = <<>>
       /\ ~CommitStep => TBL_FOSS_BCPDATA' = TBL_FOSS_BCPDATA
       /\ remote_file' # remote_file => pc = "upload" /\ pc' = "log_success"
       /\ pc' = "upload" => pc = "start"
       /\ FailureBeforeCommit => remote_file' = <<>>
       /\ UploadFailure => remote_file' = <<>>]_vars

\* the upload of a run with staged rows has failed: the rows are there,
\* no file is on the remote side
C20_Witness ==
    /\ pc = "except"
    /\ RunRows # <<>>
    /\ remote_file = <<>>
    /\ local_file_path = "bound"

-----------------------------------------------------------------------------
(* Claims about inbound ingestion *)

\* the rows of date td in a table
RowsOfDate(table, td) ==
    [e \in {x \in BagToSet(table) : x.trddate = td} |-> CopiesIn(e, table)]

\* the table of the ingest holds a row of target_date
AlreadyIngested ==
    /\ op \in InboundOps
    /\ \E e \in BagToSet(InboundTable) : e.trddate = target_date

InboundTableUnchanged ==
    /\ TBL_FOSS_UNIVERSE' = TBL_FOSS_UNIVERSE
    /\ TBL_FOSS_CUSTOMERACCOUNT' = TBL_FOSS_CUSTOMERACCOUNT
    /\ TBL_FOSS_CUSTOMERFUND' = TBL_FOSS_CUSTOMERFUND

\* C21 (amended): when the table of an inbound operation holds a row of
\* target_date, a run inserts nothing, does not raise and leaves the table
\* as it is; so from the first run that inserted a row on, the table holds
\* the rows of that run, whatever files the later runs are given
C21_PreCheckSkips ==
    [][AlreadyIngested
          => /\ InboundTableUnchanged
             /\ ~raised'
             /\ pc' # "except"]_vars

\* C21 as stated: the rows of target_date are those that the first run
\* that ended without raising has inserted
C21_RowsOfFirstSuccessfulRun ==
    (op \in InboundOps /\ rows_of_first_success # <<>>)
    => RowsOfDate(InboundTable, target_date) = rows_of_first_success[1]

\* a later run, given another file, has ended at the pre-check: the table
\* holds what the first run inserted, not the rows of this file
C21_Witness ==
    /\ AlreadyIngested
    /\ run_count = 2
    /\ pc = "done"
    /\ ~raised
    /\ ~AstypeRaises(file_contents, op)
    /\ RowsOfDate(InboundTable, target_date) = rows_of_first_success[1]
    /\ RowsOfDate(InboundTable, target_date)
           # final_df(file_contents, op, target_date)

\* the records of the file that have the expected field count, as the
\* tuples the dataframe is built from (the first field of a fnd_list
\* record is left out)
KeptTuples ==
    LET rows == csv_reader(file_contents)
    IN  {IF op = "RECEIVE_UNIVERSE" THEN Tail(rows[k]) ELSE rows[k] :
            k \in {j \in 1..Len(rows) : Len(rows[j]) = FieldCount(op)}}

\* the first run of the ingest has ended without raising
FirstRunInserted ==
    /\ op \in InboundOps
    /\ run_count = 1
    /\ pc = "done"
    /\ ~raised

\* C22: a run that inserts gives the table one row for each distinct tuple
\* among the records with the expected field count (12 for fnd_list, whose
\* first field is left out, 8 for ap_acc_info, 5 for ap_fnd_info), and no
\* row for any other record
C22_KeptRows ==
    FirstRunInserted
    => LET inserted == RowsOfDate(InboundTable, target_date)
       IN  /\ BagCardinality(inserted) = Cardinality(KeptTuples)
           /\ BagToSet(inserted)
                  = {InboundRow(t, op, target_date) : t \in KeptTuples}

\* a fnd_list file of three distinct well-formed lines and a line of 11
\* fields: three rows are inserted
C22_Witness ==
    /\ FirstRunInserted
    /\ op = "RECEIVE_UNIVERSE"
    /\ file_contents = LinesOf(FndListCandidates, {1, 2, 3, 6})
    /\ Len(csv_reader(file_contents)) = 4
    /\ Len(csv_reader(file_contents)[4]) = 11
    /\ BagCardinality(RowsOfDate(TBL_FOSS_UNIVERSE, target_date)) = 3

\* the kept tuples whose integer columns all hold an integer
WellFormedTuples ==
    {t \in KeptTuples : \A k \in IntColumns(op) : IsIntText(Strip(t[k]))}

\* C23: a first run that met no database error has not raised and has
\* inserted the well-formed rows of its file, whatever the other rows are
\* (a wrong field count, or no integer in a column loaded as an integer)
C23_MalformedRowIsSkipped ==
    (op \in InboundOps /\ run_count = 1 /\ pc = "done"
     /\ exception # "DatabaseError")
    => /\ ~raised
       /\ BagToSet(RowsOfDate(InboundTable, target_date))
              = {InboundRow(t, op, target_date) : t \in WellFormedTuples}

-----------------------------------------------------------------------------
(* Claims about main() *)

\* the process has ended
Exited == exit_status # <<>>

\* C24: a run in which the operation function, or any other statement of
\* main, has raised does not end with exit status 0
C24_FailedRunExitsNonZero ==
    (Exited /\ (raised \/ exception # "none")) => exit_status # <<0>>

\* C25: when the process ends, no connection that was opened (SFTP
\* client, SFTP transport, database connections) is still open
C25_ConnectionsClosedAtExit ==
    Exited => /\ sftp # "open"
              /\ transport # "open"
              /\ connection # "open"
              /\ connection_qbt_api # "open"

-----------------------------------------------------------------------------
(* Claims about the report file *)

\* a free-text field as the file is to hold it: each double quote as the
\* six characters &quot; , no CR, no LF, none of the ';' of the text
RECURSIVE EmittedText(_)
EmittedText(value) ==
    IF value = <<>> THEN <<>>
    ELSE (IF value[1] = "\"" THEN <<"&", "q", "u", "o", "t", ";">>
          ELSE IF value[1] \in {"\r", "\n", ";"} THEN <<>>
          ELSE <<value[1]>>)
         \o EmittedText(Tail(value))

\* the rows of TBL_FOSS_REPORT that SEND_REPORT sends
ReportedRows ==
    {r \in TBL_FOSS_REPORT :
        /\ r.trddate <= target_date
        /\ \A q \in TBL_FOSS_REPORT :
               q.trddate <= target_date => q.trddate <= r.trddate}

ReportUploaded == op = "SEND_REPORT" /\ remote_file # <<>>

\* C26: every line of the uploaded report file is
\* tradeDate;performanceText;performanceComment; for one of the rows sent,
\* the two texts with each double quote as &quot; (semicolon included),
\* without CR and LF and without the ';' of the original text
C26_ReportLineEscaping ==
    ReportUploaded
    => \A k \in 1..Len(remote_file[1]) :
           \E r \in ReportedRows :
               remote_file[1][k] =
                   DateText(r.trddate) \o <<";">>
                   \o EmittedText(r.performance_t) \o <<";">>
                   \o EmittedText(r.performance_c) \o <<";">>

-----------------------------------------------------------------------------
(* Claims about the cleanup of the local file *)

\* the step that runs the finally clause of an operation that sends a file
CleanupStep == pc = "finally" /\ pc' = "done"

-----------------------------------------------------------------------------
(* Claims about the staged rows and the uploaded file of SEND_REBALCUS *)

\* C28: after a SEND_REBALCUS run that completes its upload, with or
\* without manual override, there are as many rows staged by the run as
\* lines in the uploaded file, and the lst of the row with idx k reads as
\* line k of the file
C28_StagedRowsAgreeWithFile ==
    RebalUploaded
    => /\ Len(StagedRows) = Len(RebalLines)
       /\ \A k \in 1..Len(StagedRows) :
              \A r \in {StagedRows[j] : j \in 1..Len(StagedRows)} :
                  r.idx = k => TextOf(r.lst) = CsvField(RebalLines[k])

\* the same, for the runs without a manual override
C28_AgreeWithoutOverride == ManualActive \/ C28_StagedRowsAgreeWithFile

-----------------------------------------------------------------------------
(* Claims about the two log tables *)

\* the outcome a record reports
SuccessRecord(result) == result \in {"true", "success"}

AtMostOneRecordEach ==
    Len(TBL_EVENT_LOG) <= 1 /\ Len(TBL_BATCH_PROCESSING_LOG) <= 1

SuccessOnlyAfterUpload ==
    \A k \in 1..Len(TBL_EVENT_LOG) :
        TBL_EVENT_LOG[k] = "true" => remote_file # <<>>

SuccessBatchOnlyAfterUpload ==
    \A k \in 1..Len(TBL_BATCH_PROCESSING_LOG) :
        TBL_BATCH_PROCESSING_LOG[k] = "success" => remote_file # <<>>

\* C29: a run of an operation that sends a file writes at most one
\* TBL_EVENT_LOG record and at most one TBL_BATCH_PROCESSING_LOG record,
\* the two report the same outcome, and a success record is written only
\* after the upload has completed
C29_OneOutcomeInBothLogs ==
    /\ AtMostOneRecordEach
    /\ SuccessOnlyAfterUpload
    /\ SuccessBatchOnlyAfterUpload
    /\ \A i \in 1..Len(TBL_EVENT_LOG), j \in 1..Len(TBL_BATCH_PROCESSING_LOG) :
           SuccessRecord(TBL_EVENT_LOG[i])
           = SuccessRecord(TBL_BATCH_PROCESSING_LOG[j])

\* the parts of C29 about the number of records and about the upload
C29_CountAndOrder ==
    AtMostOneRecordEach /\ SuccessOnlyAfterUpload
    /\ SuccessBatchOnlyAfterUpload

-----------------------------------------------------------------------------
(* Claims about the base date of consecutive days *)

\* calendar days searched backward for the latest business day
MaxLookBack == 10

RECURSIVE DaysBack(_, _)
DaysBack(dt, n) == IF n = 0 THEN dt ELSE DaysBack(MinusOneDay(dt), n - 1)

\* the MaxLookBack calendar dates before d
DatesBefore(d) == {Strftime(DaysBack(Strptime(d), n)) : n \in 1..MaxLookBack}

\* t is the latest business day before d
LatestBusinessDayBefore(t, d, hol) ==
    /\ t < d
    /\ IsBusinessDay(Strptime(t), hol)
    /\ \A s \in DatesBefore(d) : s > t => ~IsBusinessDay(Strptime(s), hol)

\* C30: for a non-business day d, get_recent_business_date(d) equals
\* get_recent_business_date(t), t being the latest business day before d;
\* and get_recent_business_date is monotone non-decreasing: no earlier
\* date has a later base date
C30_SameBaseDateAsLatestBusinessDay ==
    (pc = "done" /\ op = "recent_business_date")
    => /\ ~IsBusinessDay(Strptime(target_date), kr_holidays)
          => \E t \in DatesBefore(target_date) :
                 /\ LatestBusinessDayBefore(t, target_date, kr_holidays)
                 /\ sFndDate = get_recent_business_date(t, kr_holidays)
       /\ \A d \in TargetDates :
              d <= target_date
              => get_recent_business_date(d, kr_holidays) <= sFndDate

\* a Sunday, whose Saturday and Friday have the same base date
C30_Witness ==
    /\ pc = "done" /\ op = "recent_business_date"
    /\ target_date = 20240303
    /\ kr_holidays = {}
    /\ Weekday(Strptime(target_date)) = 6
    /\ sFndDate = 20240229
    /\ get_recent_business_date(20240302, kr_holidays) = sFndDate
    /\ get_recent_business_date(20240301, kr_holidays) = sFndDate

=============================================================================
